---- MODULE Spec2Model ----
(***************************************************************************)
(* A model of the ICN Victoria data pipeline.                              *)
(*                                                                         *)
(* DataNormalizer.process_csv (src/Database/normalize_data.py) folds the   *)
(* rows of an enriched CSV file into five collections; one step of the     *)
(* model is one iteration of its row loop.  generate_sql_inserts and       *)
(* export_to_csv render the collections, one step each.  process_csv of    *)
(* src/Database/geocode_addresses.py enriches the rows of the raw file     *)
(* with coordinates; one step is one iteration of its loops.               *)
(*                                                                         *)
(* Representation of Python values:                                        *)
(*   str    a tuple of one-character strings, "ab" is <<"a", "b">>         *)
(*   None   the tuple <<"None">> (its element is no single character, so   *)
(*          it differs from every str)                                     *)
(*   float  <<"float", m, e>>, the decimal m * 10^(-e), normalised so that *)
(*          m carries no trailing zero that e could absorb                 *)
(*   dict   a sequence of <<key, value>> pairs in insertion order          *)
(*   list   a sequence                                                     *)
(* A csv.DictReader row is a function from column names to cells; a cell   *)
(* is a str, or None when the line is shorter than the header (restval).   *)
(***************************************************************************)
EXTENDS Integers, Sequences, FiniteSets, TLC

VARIABLES
    items,                      \* self.items: itemId -> itemName
    detailed_items,             \* self.detailed_items: detailedItemId -> {detailedItemName, itemId}
    sectors,                    \* self.sectors: sectorMappingId -> sectorName
    organisations,              \* self.organisations: organisationId -> organisation record
    capabilities,               \* self.capabilities: list of capability records
    current_detailed_item_id,   \* carry-forward slot of the detailed-item column
    current_sector_mapping_id,  \* carry-forward slot of the sector-mapping column
    file,                       \* the rows the reader has yielded so far, in file order
    aborted,                    \* an exception has left process_csv
    start_row,                  \* geocoder process_csv: parameter start_row
    max_rows,                   \* geocoder process_csv: parameter max_rows
    reader,                     \* geocoder: the data rows read from the input file so far
    batch_results,              \* geocoder: the rows buffered for the next write
    output,                     \* geocoder: the rows of the output file (fields of each line)
    processed_count,            \* geocoder: the number of addresses geocoded
    requests,                   \* geocoder: the requests sent, <<service, address, answer>> each
    finished,                   \* geocoder: the row loop and the final write are over
    sql_out,                    \* the INSERT statements of the SQL file, <<table, values>> each
    csv_out,                    \* the lines of the five exported CSV files (fields of each line)
    written                     \* the outputs main has written, of "sql" and "csv"

normalizer_vars == <<items, detailed_items, sectors, organisations, capabilities,
                     current_detailed_item_id, current_sector_mapping_id, file,
                     aborted>>

geocoder_vars == <<start_row, max_rows, reader, batch_results, output,
                   processed_count, requests, finished>>

export_vars == <<sql_out, csv_out, written>>

vars == <<normalizer_vars, geocoder_vars, export_vars>>

-----------------------------------------------------------------------------
(* Bounds of the model. *)

MaxRows == 3

\* The longest input file of the geocoder, in data rows.
MaxGeoRows == 3

\* The longest input file of the geocoder in the runs that fill a batch.
MaxBatchRows == 12

-----------------------------------------------------------------------------
(* Python values. *)

None == <<"None">>

IsNone(v) == v = None

\* A float is <<"float", m, e>>, the number m * 10^(-e) with m not divisible
\* by 10 (zero is m = 0, e = 0).  The floats that are no such number have
\* m = 0 and e > 0: they are named below.  m and e are the digits and
\* the exponent of the float's repr, so the model holds the normal floats
\* whose repr has 15 digits at most (NormFloat); TLC computes those of nine
\* digits, its integers being of 32 bits.  nan == nan of the model is TRUE
\* where Python's is False; no definition compares a nan.
Float(m, e) == <<"float", m, e>>

NegZero == Float(0, 1)

Inf == Float(0, 2)

NegInf == Float(0, 3)

NaN == Float(0, 4)

IsFloat(v) == Len(v) = 3 /\ v[1] = "float"

\* Python truthiness of None, a str and a float (0.0 and -0.0 are false).
Truthy(v) ==
    IF IsNone(v) THEN FALSE
    ELSE IF IsFloat(v) THEN v[2] # 0 \/ v[3] > 1
    ELSE Len(v) > 0

\* Python's `a or b`.
Or(a, b) == IF Truthy(a) THEN a ELSE b

-----------------------------------------------------------------------------
(* str methods.  A str is a tuple of one-character strings.  A string of   *)
(* the model holds the characters below U+0100, the grave accent (U+0060)  *)
(* excepted, and the characters of the Basic Multilingual Plane whose code *)
(* point ends in a byte from 80 to FF (hexadecimal); the parser rejects    *)
(* every other character, so no text of the model contains one.  The       *)
(* tables below are str.isspace(), str.isdecimal() and str.upper() over    *)
(* the characters a string holds.                                          *)

\* str.isspace().  The other whitespace of Python (U+2000..U+200A, U+2028,
\* U+2029, U+202F, U+205F, U+3000) is not held by a string.
IsSpace(c) ==
    c \in { "\t", "\n", "", "\f", "\r",   \* U+0009..U+000D
            "", "", "", "",       \* U+001C..U+001F
            " ", "", " ", " " }        \* U+0020, U+0085, U+00A0, U+1680

SetMin(S) == CHOOSE x \in S : \A y \in S : x <= y

SetMax(S) == CHOOSE x \in S : \A y \in S : x >= y

\* str.strip(): leading and trailing whitespace removed.
Strip(s) ==
    LET solid == {i \in 1..Len(s) : ~IsSpace(s[i])}
    IN  IF solid = {} THEN <<>> ELSE SubSeq(s, SetMin(solid), SetMax(solid))

\* The characters str.upper() changes into one character, a to z first, and
\* below them the characters it changes them into.
LowerLetters ==
    <<
        "a","b","c","d","e","f","g","h","i","j","k","l","m",
        "n","o","p","q","r","s","t","u","v","w","x","y","z",
        "µ","à","á","â","ã","ä","å","æ","ç","è","é","ê","ë",
        "ì","í","î","ï","ð","ñ","ò","ó","ô","õ","ö","ø","ù",
        "ú","û","ü","ý","þ","ƃ","ƅ","ƈ","ƌ","ƒ","ƕ","ƙ","ơ",
        "ƣ","ƥ","ƨ","ƭ","ư","ƴ","ƶ","ƹ","ƽ","ƿ","ǅ","ǆ","ǈ",
        "ǉ","ǋ","ǌ","ǎ","ǐ","ǒ","ǔ","ǖ","ǘ","ǚ","ǜ","ǝ","ǟ",
        "ǡ","ǣ","ǥ","ǧ","ǩ","ǫ","ǭ","ǯ","ǲ","ǳ","ǵ","ǹ","ǻ",
        "ǽ","ǿ","ʀ","ʂ","ʃ","ʇ","ʈ","ʊ","ʋ","ʒ","ʝ","ʞ","ά",
        "έ","ή","ί","α","β","γ","δ","ε","ζ","η","θ","ι","κ",
        "λ","μ","ν","ξ","ο","π","ρ","ς","σ","τ","υ","φ","χ",
        "ψ","ω","ϊ","ϋ","ό","ύ","ώ","ϐ","ϑ","ϕ","ϖ","ϗ","ϙ",
        "ϛ","ϝ","ϟ","ϡ","ϣ","ϥ","ϧ","ϩ","ϫ","ϭ","ϯ","ϰ","ϱ",
        "ϲ","ϵ","ϸ","ϻ","ҁ","ҋ","ҍ","ҏ","ґ","ғ","ҕ","җ","ҙ",
        "қ","ҝ","ҟ","ҡ","ң","ҥ","ҧ","ҩ","ҫ","ҭ","ү","ұ","ҳ",
        "ҵ","ҷ","ҹ","һ","ҽ","ҿ","ӂ","ӄ","ӆ","ӈ","ӊ","ӌ","ӎ",
        "ӏ","ӑ","ӓ","ӕ","ӗ","ә","ӛ","ӝ","ӟ","ӡ","ӣ","ӥ","ӧ",
        "ө","ӫ","ӭ","ӯ","ӱ","ӳ","ӵ","ӷ","ӹ","ӻ","ӽ","ӿ","ა",
        "ბ","გ","დ","ე","ვ","ზ","თ","ი","კ","ლ","მ","ნ","ო",
        "პ","ჟ","რ","ს","ტ","უ","ფ","ქ","ღ","ყ","შ","ჩ","ც",
        "ძ","წ","ჭ","ხ","ჯ","ჰ","ჱ","ჲ","ჳ","ჴ","ჵ","ჶ","ჷ",
        "ჸ","ჹ","ჺ","ჽ","ჾ","ჿ","ᏸ","ᏹ","ᏺ","ᏻ","ᏼ","ᏽ","ᶎ",
        "ẁ","ẃ","ẅ","ẇ","ẉ","ẋ","ẍ","ẏ","ẑ","ẓ","ẕ","ạ","ả",
        "ấ","ầ","ẩ","ẫ","ậ","ắ","ằ","ẳ","ẵ","ặ","ẹ","ẻ","ẽ",
        "ế","ề","ể","ễ","ệ","ỉ","ị","ọ","ỏ","ố","ồ","ổ","ỗ",
        "ộ","ớ","ờ","ở","ỡ","ợ","ụ","ủ","ứ","ừ","ử","ữ","ự",
        "ỳ","ỵ","ỷ","ỹ","ỻ","ỽ","ỿ","ᾰ","ᾱ","ι","ῐ","ῑ","ῠ",
        "ῡ","ῥ","ↄ","ⓐ","ⓑ","ⓒ","ⓓ","ⓔ","ⓕ","ⓖ","ⓗ","ⓘ","ⓙ",
        "ⓚ","ⓛ","ⓜ","ⓝ","ⓞ","ⓟ","ⓠ","ⓡ","ⓢ","ⓣ","ⓤ","ⓥ","ⓦ",
        "ⓧ","ⓨ","ⓩ","ⲁ","ⲃ","ⲅ","ⲇ","ⲉ","ⲋ","ⲍ","ⲏ","ⲑ","ⲓ",
        "ⲕ","ⲗ","ⲙ","ⲛ","ⲝ","ⲟ","ⲡ","ⲣ","ⲥ","ⲧ","ⲩ","ⲫ","ⲭ",
        "ⲯ","ⲱ","ⲳ","ⲵ","ⲷ","ⲹ","ⲻ","ⲽ","ⲿ","ⳁ","ⳃ","ⳅ","ⳇ",
        "ⳉ","ⳋ","ⳍ","ⳏ","ⳑ","ⳓ","ⳕ","ⳗ","ⳙ","ⳛ","ⳝ","ⳟ","ⳡ",
        "ⳣ","ⳬ","ⳮ","ⳳ","ꚁ","ꚃ","ꚅ","ꚇ","ꚉ","ꚋ","ꚍ","ꚏ","ꚑ",
        "ꚓ","ꚕ","ꚗ","ꚙ","ꚛ","ꞁ","ꞃ","ꞅ","ꞇ","ꞌ","ꞑ","ꞓ","ꞔ",
        "ꞗ","ꞙ","ꞛ","ꞝ","ꞟ","ꞡ","ꞣ","ꞥ","ꞧ","ꞩ","ꞵ","ꞷ","ꞹ",
        "ꞻ","ꞽ","ꞿ","ꟁ","ꟃ","ꟈ","ꟊ","ꟑ","ꟗ","ꟙ","ꟶ","ꮀ","ꮁ",
        "ꮂ","ꮃ","ꮄ","ꮅ","ꮆ","ꮇ","ꮈ","ꮉ","ꮊ","ꮋ","ꮌ","ꮍ","ꮎ",
        "ꮏ","ꮐ","ꮑ","ꮒ","ꮓ","ꮔ","ꮕ","ꮖ","ꮗ","ꮘ","ꮙ","ꮚ","ꮛ",
        "ꮜ","ꮝ","ꮞ","ꮟ","ꮠ","ꮡ","ꮢ","ꮣ","ꮤ","ꮥ","ꮦ","ꮧ","ꮨ",
        "ꮩ","ꮪ","ꮫ","ꮬ","ꮭ","ꮮ","ꮯ","ꮰ","ꮱ","ꮲ","ꮳ","ꮴ","ꮵ",
        "ꮶ","ꮷ","ꮸ","ꮹ","ꮺ","ꮻ","ꮼ","ꮽ","ꮾ","ꮿ">>

UpperLetters ==
    <<
        "A","B","C","D","E","F","G","H","I","J","K","L","M",
        "N","O","P","Q","R","S","T","U","V","W","X","Y","Z",
        "Μ","À","Á","Â","Ã","Ä","Å","Æ","Ç","È","É","Ê","Ë",
        "Ì","Í","Î","Ï","Ð","Ñ","Ò","Ó","Ô","Õ","Ö","Ø","Ù",
        "Ú","Û","Ü","Ý","Þ","Ƃ","Ƅ","Ƈ","Ƌ","Ƒ","Ƕ","Ƙ","Ơ",
        "Ƣ","Ƥ","Ƨ","Ƭ","Ư","Ƴ","Ƶ","Ƹ","Ƽ","Ƿ","Ǆ","Ǆ","Ǉ",
        "Ǉ","Ǌ","Ǌ","Ǎ","Ǐ","Ǒ","Ǔ","Ǖ","Ǘ","Ǚ","Ǜ","Ǝ","Ǟ",
        "Ǡ","Ǣ","Ǥ","Ǧ","Ǩ","Ǫ","Ǭ","Ǯ","Ǳ","Ǳ","Ǵ","Ǹ","Ǻ",
        "Ǽ","Ǿ","Ʀ","Ʂ","Ʃ","Ʇ","Ʈ","Ʊ","Ʋ","Ʒ","Ʝ","Ʞ","Ά",
        "Έ","Ή","Ί","Α","Β","Γ","Δ","Ε","Ζ","Η","Θ","Ι","Κ",
        "Λ","Μ","Ν","Ξ","Ο","Π","Ρ","Σ","Σ","Τ","Υ","Φ","Χ",
        "Ψ","Ω","Ϊ","Ϋ","Ό","Ύ","Ώ","Β","Θ","Φ","Π","Ϗ","Ϙ",
        "Ϛ","Ϝ","Ϟ","Ϡ","Ϣ","Ϥ","Ϧ","Ϩ","Ϫ","Ϭ","Ϯ","Κ","Ρ",
        "Ϲ","Ε","Ϸ","Ϻ","Ҁ","Ҋ","Ҍ","Ҏ","Ґ","Ғ","Ҕ","Җ","Ҙ",
        "Қ","Ҝ","Ҟ","Ҡ","Ң","Ҥ","Ҧ","Ҩ","Ҫ","Ҭ","Ү","Ұ","Ҳ",
        "Ҵ","Ҷ","Ҹ","Һ","Ҽ","Ҿ","Ӂ","Ӄ","Ӆ","Ӈ","Ӊ","Ӌ","Ӎ",
        "Ӏ","Ӑ","Ӓ","Ӕ","Ӗ","Ә","Ӛ","Ӝ","Ӟ","Ӡ","Ӣ","Ӥ","Ӧ",
        "Ө","Ӫ","Ӭ","Ӯ","Ӱ","Ӳ","Ӵ","Ӷ","Ӹ","Ӻ","Ӽ","Ӿ","Ა",
        "Ბ","Გ","Დ","Ე","Ვ","Ზ","Თ","Ი","Კ","Ლ","Მ","Ნ","Ო",
        "Პ","Ჟ","Რ","Ს","Ტ","Უ","Ფ","Ქ","Ღ","Ყ","Შ","Ჩ","Ც",
        "Ძ","Წ","Ჭ","Ხ","Ჯ","Ჰ","Ჱ","Ჲ","Ჳ","Ჴ","Ჵ","Ჶ","Ჷ",
        "Ჸ","Ჹ","Ჺ","Ჽ","Ჾ","Ჿ","Ᏸ","Ᏹ","Ᏺ","Ᏻ","Ᏼ","Ᏽ","Ᶎ",
        "Ẁ","Ẃ","Ẅ","Ẇ","Ẉ","Ẋ","Ẍ","Ẏ","Ẑ","Ẓ","Ẕ","Ạ","Ả",
        "Ấ","Ầ","Ẩ","Ẫ","Ậ","Ắ","Ằ","Ẳ","Ẵ","Ặ","Ẹ","Ẻ","Ẽ",
        "Ế","Ề","Ể","Ễ","Ệ","Ỉ","Ị","Ọ","Ỏ","Ố","Ồ","Ổ","Ỗ",
        "Ộ","Ớ","Ờ","Ở","Ỡ","Ợ","Ụ","Ủ","Ứ","Ừ","Ử","Ữ","Ự",
        "Ỳ","Ỵ","Ỷ","Ỹ","Ỻ","Ỽ","Ỿ","Ᾰ","Ᾱ","Ι","Ῐ","Ῑ","Ῠ",
        "Ῡ","Ῥ","Ↄ","Ⓐ","Ⓑ","Ⓒ","Ⓓ","Ⓔ","Ⓕ","Ⓖ","Ⓗ","Ⓘ","Ⓙ",
        "Ⓚ","Ⓛ","Ⓜ","Ⓝ","Ⓞ","Ⓟ","Ⓠ","Ⓡ","Ⓢ","Ⓣ","Ⓤ","Ⓥ","Ⓦ",
        "Ⓧ","Ⓨ","Ⓩ","Ⲁ","Ⲃ","Ⲅ","Ⲇ","Ⲉ","Ⲋ","Ⲍ","Ⲏ","Ⲑ","Ⲓ",
        "Ⲕ","Ⲗ","Ⲙ","Ⲛ","Ⲝ","Ⲟ","Ⲡ","Ⲣ","Ⲥ","Ⲧ","Ⲩ","Ⲫ","Ⲭ",
        "Ⲯ","Ⲱ","Ⲳ","Ⲵ","Ⲷ","Ⲹ","Ⲻ","Ⲽ","Ⲿ","Ⳁ","Ⳃ","Ⳅ","Ⳇ",
        "Ⳉ","Ⳋ","Ⳍ","Ⳏ","Ⳑ","Ⳓ","Ⳕ","Ⳗ","Ⳙ","Ⳛ","Ⳝ","Ⳟ","Ⳡ",
        "Ⳣ","Ⳬ","Ⳮ","Ⳳ","Ꚁ","Ꚃ","Ꚅ","Ꚇ","Ꚉ","Ꚋ","Ꚍ","Ꚏ","Ꚑ",
        "Ꚓ","Ꚕ","Ꚗ","Ꚙ","Ꚛ","Ꞁ","Ꞃ","Ꞅ","Ꞇ","Ꞌ","Ꞑ","Ꞓ","Ꞔ",
        "Ꞗ","Ꞙ","Ꞛ","Ꞝ","Ꞟ","Ꞡ","Ꞣ","Ꞥ","Ꞧ","Ꞩ","Ꞵ","Ꞷ","Ꞹ",
        "Ꞻ","Ꞽ","Ꞿ","Ꟁ","Ꟃ","Ꟈ","Ꟊ","Ꟑ","Ꟗ","Ꟙ","Ꟶ","Ꮀ","Ꮁ",
        "Ꮂ","Ꮃ","Ꮄ","Ꮅ","Ꮆ","Ꮇ","Ꮈ","Ꮉ","Ꮊ","Ꮋ","Ꮌ","Ꮍ","Ꮎ",
        "Ꮏ","Ꮐ","Ꮑ","Ꮒ","Ꮓ","Ꮔ","Ꮕ","Ꮖ","Ꮗ","Ꮘ","Ꮙ","Ꮚ","Ꮛ",
        "Ꮜ","Ꮝ","Ꮞ","Ꮟ","Ꮠ","Ꮡ","Ꮢ","Ꮣ","Ꮤ","Ꮥ","Ꮦ","Ꮧ","Ꮨ",
        "Ꮩ","Ꮪ","Ꮫ","Ꮬ","Ꮭ","Ꮮ","Ꮯ","Ꮰ","Ꮱ","Ꮲ","Ꮳ","Ꮴ","Ꮵ",
        "Ꮶ","Ꮷ","Ꮸ","Ꮹ","Ꮺ","Ꮻ","Ꮼ","Ꮽ","Ꮾ","Ꮿ">>

\* The characters str.upper() changes into more than one character.
UpperSpecial ==
    <<
       <<"ß", <<"S", "S">>>>,
       <<"ẚ", <<"A", "ʾ">>>>,
       <<"ᾲ", <<"Ὰ", "Ι">>>>,
       <<"ᾳ", <<"Α", "Ι">>>>,
       <<"ᾴ", <<"Ά", "Ι">>>>,
       <<"ᾼ", <<"Α", "Ι">>>>,
       <<"ῂ", <<"Ὴ", "Ι">>>>,
       <<"ῃ", <<"Η", "Ι">>>>,
       <<"ῄ", <<"Ή", "Ι">>>>,
       <<"ῌ", <<"Η", "Ι">>>>,
       <<"ῲ", <<"Ὼ", "Ι">>>>,
       <<"ῳ", <<"Ω", "Ι">>>>,
       <<"ῴ", <<"Ώ", "Ι">>>>,
       <<"ῼ", <<"Ω", "Ι">>>>>>

\* str.upper() of one character.  95 characters a string holds have a
\* capital it does not hold (U+00FF, whose capital is U+0178, is one):
\* UpperChar has no value there, and TLC stops on a text with one of them.
UpperChar(c) ==
    LET capitalNotHeld == {
            "ÿ","ƀ","ƚ","ƞ","ǰ","ʉ","ʌ","ΐ","ΰ","ϳ","ր","ց","ւ",
            "փ","ք","օ","ֆ","և","ᲀ","ᲁ","ᲂ","ᲃ","ᲄ","ᲅ","ᲆ","ᲇ",
            "ᲈ","ẖ","ẗ","ẘ","ẙ","ẛ","ᾀ","ᾁ","ᾂ","ᾃ","ᾄ","ᾅ","ᾆ",
            "ᾇ","ᾈ","ᾉ","ᾊ","ᾋ","ᾌ","ᾍ","ᾎ","ᾏ","ᾐ","ᾑ","ᾒ","ᾓ",
            "ᾔ","ᾕ","ᾖ","ᾗ","ᾘ","ᾙ","ᾚ","ᾛ","ᾜ","ᾝ","ᾞ","ᾟ","ᾠ",
            "ᾡ","ᾢ","ᾣ","ᾤ","ᾥ","ᾦ","ᾧ","ᾨ","ᾩ","ᾪ","ᾫ","ᾬ","ᾭ",
            "ᾮ","ᾯ","ᾶ","ᾷ","ῆ","ῇ","ῒ","ΐ","ῖ","ῗ","ῢ","ΰ","ῤ",
            "ῦ","ῧ","ῶ","ῷ" }
    IN  IF c \in capitalNotHeld THEN CHOOSE capital \in {} : TRUE
        ELSE IF \E i \in 1..Len(LowerLetters) : LowerLetters[i] = c
        THEN <<UpperLetters[CHOOSE i \in 1..Len(LowerLetters) : LowerLetters[i] = c]>>
        ELSE IF \E i \in 1..Len(UpperSpecial) : UpperSpecial[i][1] = c
        THEN UpperSpecial[CHOOSE i \in 1..Len(UpperSpecial) : UpperSpecial[i][1] = c][2]
        ELSE <<c>>

\* str.upper()
RECURSIVE Upper(_)
Upper(s) == IF Len(s) = 0 THEN <<>> ELSE UpperChar(s[1]) \o Upper(Tail(s))

\* `c in s` for a one-character c.
Contains(s, c) == \E i \in 1..Len(s) : s[i] = c

\* str.startswith(prefix)
StartsWith(s, prefix) ==
    Len(s) >= Len(prefix) /\ SubSeq(s, 1, Len(prefix)) = prefix

-----------------------------------------------------------------------------
(* Decimal digits. *)

Digits == <<"0","1","2","3","4","5","6","7","8","9">>

\* The decimal digits (category Nd) a string holds, 0 to 9 of each script.
DigitScripts ==
    <<
       <<"0","1","2","3","4","5","6","7","8","9">>,
       <<"۰","۱","۲","۳","۴","۵","۶","۷","۸","۹">>,
       <<"߀","߁","߂","߃","߄","߅","߆","߇","߈","߉">>,
       <<"০","১","২","৩","৪","৫","৬","৭","৮","৯">>,
       <<"૦","૧","૨","૩","૪","૫","૬","૭","૮","૯">>,
       <<"௦","௧","௨","௩","௪","௫","௬","௭","௮","௯">>,
       <<"೦","೧","೨","೩","೪","೫","೬","೭","೮","೯">>,
       <<"෦","෧","෨","෩","෪","෫","෬","෭","෮","෯">>,
       <<"໐","໑","໒","໓","໔","໕","໖","໗","໘","໙">>,
       <<"႐","႑","႒","႓","႔","႕","႖","႗","႘","႙">>,
       <<"០","១","២","៣","៤","៥","៦","៧","៨","៩">>,
       <<"᧐","᧑","᧒","᧓","᧔","᧕","᧖","᧗","᧘","᧙">>,
       <<"᪀","᪁","᪂","᪃","᪄","᪅","᪆","᪇","᪈","᪉">>,
       <<"᪐","᪑","᪒","᪓","᪔","᪕","᪖","᪗","᪘","᪙">>,
       <<"᮰","᮱","᮲","᮳","᮴","᮵","᮶","᮷","᮸","᮹">>,
       <<"꣐","꣑","꣒","꣓","꣔","꣕","꣖","꣗","꣘","꣙">>,
       <<"꧐","꧑","꧒","꧓","꧔","꧕","꧖","꧗","꧘","꧙">>,
       <<"꧰","꧱","꧲","꧳","꧴","꧵","꧶","꧷","꧸","꧹">>,
       <<"꯰","꯱","꯲","꯳","꯴","꯵","꯶","꯷","꯸","꯹">> >>

\* [0-9]
IsAsciiDigit(c) == \E i \in 1..10 : Digits[i] = c

\* \d of a str pattern, and the digits int() and float() read.
IsDigit(c) ==
    IsAsciiDigit(c) \/ \E k \in 1..Len(DigitScripts) : \E i \in 1..10 : DigitScripts[k][i] = c

DigitVal(c) ==
    (CHOOSE i \in 1..10 : \E k \in 1..Len(DigitScripts) : DigitScripts[k][i] = c) - 1

AllDigits(s) == \A i \in 1..Len(s) : IsDigit(s[i])

RECURSIVE DigitsVal(_)
DigitsVal(s) ==
    IF Len(s) = 0 THEN 0
    ELSE 10 * DigitsVal(SubSeq(s, 1, Len(s) - 1)) + DigitVal(s[Len(s)])

\* The decimal digits of n >= 0, at least `width` of them (zero padded).
RECURSIVE ToDigits(_, _)
ToDigits(n, width) ==
    IF n < 10 /\ width <= 1 THEN <<Digits[n + 1]>>
    ELSE Append(ToDigits(n \div 10, width - 1), Digits[(n % 10) + 1])

-----------------------------------------------------------------------------
(* float(s): whitespace around the text is dropped, the digits of every    *)
(* script are read as 0 to 9, an underscore may stand between two digits,  *)
(* and the text is a sign and "inf", "infinity" or "nan" in any case, or a *)
(* sign, digits with at most one point, and an exponent.                   *)

\* float() drops the whitespace around the text; of the characters below
\* U+0080 it drops the C whitespace only, so U+001C..U+001F stay and make
\* the text malformed.
FloatStrip(s) ==
    LET solid == {i \in 1..Len(s) :
                    ~IsSpace(s[i]) \/ s[i] \in {"", "", "", ""}}
    IN  IF solid = {} THEN <<>> ELSE SubSeq(s, SetMin(solid), SetMax(solid))

\* The text float() parses: stripped, every digit as its ASCII digit.
FloatText(s) ==
    LET AsciiDigits(t) ==
            [i \in 1..Len(t) |-> IF IsDigit(t[i]) THEN Digits[DigitVal(t[i]) + 1] ELSE t[i]]
    IN  AsciiDigits(FloatStrip(s))

RECURSIVE WithoutUnderscores(_)
WithoutUnderscores(t) ==
    IF Len(t) = 0 THEN <<>>
    ELSE (IF t[1] = "_" THEN <<>> ELSE <<t[1]>>) \o WithoutUnderscores(Tail(t))

Unsigned(t) == IF Len(t) > 0 /\ t[1] \in {"-", "+"} THEN Tail(t) ELSE t

\* "inf" when t is inf or infinity, "nan" when it is nan, each letter in
\* either case; "" otherwise.
SpecialWord(t) ==
    LET words == << <<"inf", <<"i", "n", "f">>, <<"I", "N", "F">>>>,
                    <<"inf", <<"i", "n", "f", "i", "n", "i", "t", "y">>,
                             <<"I", "N", "F", "I", "N", "I", "T", "Y">>>>,
                    <<"nan", <<"n", "a", "n">>, <<"N", "A", "N">>>> >>
        hits  == {k \in 1..Len(words) :
                    /\ Len(t) = Len(words[k][2])
                    /\ \A i \in 1..Len(t) : t[i] \in {words[k][2][i], words[k][3][i]}}
    IN  IF hits = {} THEN "" ELSE words[SetMin(hits)][1]

\* The place of the exponent mark, or one past the end.
ExponentAt(body) ==
    LET es == {i \in 1..Len(body) : body[i] \in {"e", "E"}}
    IN  IF es = {} THEN Len(body) + 1 ELSE SetMin(es)

\* Whether float(s) returns (TRUE) or raises ValueError (FALSE).
FloatOk(s) ==
    LET \* digits with at most one point, one digit at least
        MantissaOk(mant) ==
            /\ Cardinality({i \in 1..Len(mant) : mant[i] = "."}) <= 1
            /\ \A i \in 1..Len(mant) : IsAsciiDigit(mant[i]) \/ mant[i] = "."
            /\ \E i \in 1..Len(mant) : IsAsciiDigit(mant[i])
        \* the digits after the mark and an optional sign
        ExponentOk(ex) == Len(ex) > 0 /\ \A i \in 1..Len(ex) : IsAsciiDigit(ex[i])
        NumberOk(body, p) ==
            /\ MantissaOk(SubSeq(body, 1, p - 1))
            /\ p <= Len(body) => ExponentOk(Unsigned(SubSeq(body, p + 1, Len(body))))
        BodyOk(body) == SpecialWord(body) # "" \/ NumberOk(body, ExponentAt(body))
        \* an underscore stands after a digit and before a digit
        TextOk(t) ==
            /\ \A i \in 1..Len(t) :
                  t[i] = "_" => /\ i > 1 /\ i < Len(t)
                                /\ IsAsciiDigit(t[i - 1]) /\ IsAsciiDigit(t[i + 1])
            /\ BodyOk(Unsigned(WithoutUnderscores(t)))
    IN  TextOk(FloatText(s))

\* float() of the decimal m * 10^(-e), m # 0.  The float is written by the
\* digits of its repr, m without a trailing zero.  A normal float read from
\* 15 digits at most (sys.float_info.dig) has these very digits as its
\* repr.  A longer decimal and a subnormal float are rounded in binary,
\* which is not computed: NormFloat has no value there, and TLC stops.  The
\* bounds are those of binary64 cut to 15 digits: inf above
\* 1.79769313486231e308, zero up to 2.47032822920623e-324, subnormal below
\* 2.22507385850721e-308.
RECURSIVE NormFloat(_, _)
NormFloat(m, e) ==
    LET largest    == <<"1","7","9","7","6","9","3","1","3","4","8","6","2","3","1">>
        toZero     == <<"2","4","7","0","3","2","8","2","2","9","2","0","6","2","3">>
        normalFrom == <<"2","2","2","5","0","7","3","8","5","8","5","0","7","2","1">>
        dig        == Len(largest)
        abs        == IF m < 0 THEN 0 - m ELSE m
        D          == ToDigits(abs, 1)
        exp10      == Len(D) - 1 - e
        padded     == D \o [i \in 1..(dig - Len(D)) |-> "0"]
        \* a < b, two texts of dig digits
        Less(a, b) == \E i \in 1..dig :
                         /\ \A j \in 1..(i - 1) : a[j] = b[j]
                         /\ DigitVal(a[i]) < DigitVal(b[i])
    IN  IF m % 10 = 0 THEN NormFloat(m \div 10, e - 1)
        ELSE IF exp10 > 308 THEN (IF m < 0 THEN NegInf ELSE Inf)
        ELSE IF exp10 < -324 THEN (IF m < 0 THEN NegZero ELSE Float(0, 0))
        ELSE IF Len(D) > dig THEN CHOOSE float \in {} : TRUE
        ELSE IF exp10 = 308 /\ Less(largest, padded)
        THEN (IF m < 0 THEN NegInf ELSE Inf)
        ELSE IF exp10 = -324 /\ ~Less(toZero, padded)
        THEN (IF m < 0 THEN NegZero ELSE Float(0, 0))
        ELSE IF exp10 < -308 \/ (exp10 = -308 /\ Less(padded, normalFrom))
        THEN CHOOSE float \in {} : TRUE
        ELSE Float(m, e)

\* The value float(s) returns when FloatOk(s).
FloatVal(s) ==
    LET Signed(neg, m, e) ==
            IF m = 0 THEN (IF neg THEN NegZero ELSE Float(0, 0))
            ELSE NormFloat(IF neg THEN 0 - m ELSE m, e)
        \* the digits before and after the point at d, and the exponent x
        Decimal(neg, mant, d, x) ==
            Signed(neg, DigitsVal(SubSeq(mant, 1, d - 1) \o SubSeq(mant, d + 1, Len(mant))),
                   (IF d < Len(mant) THEN Len(mant) - d ELSE 0) - x)
        Number(neg, mant, ex) ==
            Decimal(neg, mant,
                    IF Contains(mant, ".")
                    THEN SetMin({i \in 1..Len(mant) : mant[i] = "."}) ELSE Len(mant) + 1,
                    IF Len(ex) > 0 /\ ex[1] = "-" THEN 0 - DigitsVal(Tail(ex))
                    ELSE DigitsVal(Unsigned(ex)))
        Body(neg, body, p, word) ==
            IF word = "nan" THEN NaN
            ELSE IF word = "inf" THEN (IF neg THEN NegInf ELSE Inf)
            ELSE Number(neg, SubSeq(body, 1, p - 1), SubSeq(body, p + 1, Len(body)))
        Text(neg, body) == Body(neg, body, ExponentAt(body), SpecialWord(body))
        Parsed(t) == Text(Len(t) > 0 /\ t[1] = "-", Unsigned(t))
    IN  Parsed(WithoutUnderscores(FloatText(s)))

\* str(x) and repr(x) of a float: the exponent form below 1e-4 and from 1e16.
FloatStr(x) ==
    LET m     == x[2]
        e     == x[3]
        abs   == IF m < 0 THEN 0 - m ELSE m
        sign  == IF m < 0 THEN <<"-">> ELSE <<>>
        D     == ToDigits(abs, 1)
        k     == Len(D)
        exp10 == k - 1 - e
    IN  IF x = NegZero THEN <<"-", "0", ".", "0">>
        ELSE IF x = Inf THEN <<"i", "n", "f">>
        ELSE IF x = NegInf THEN <<"-", "i", "n", "f">>
        ELSE IF x = NaN THEN <<"n", "a", "n">>
        ELSE IF m = 0 THEN <<"0", ".", "0">>
        ELSE IF exp10 < -4 \/ exp10 >= 16
        THEN sign \o <<D[1]>> \o (IF k > 1 THEN <<".">> \o Tail(D) ELSE <<>>)
                  \o <<"e", IF exp10 < 0 THEN "-" ELSE "+">>
                  \o ToDigits(IF exp10 < 0 THEN 0 - exp10 ELSE exp10, 2)
        ELSE IF e <= 0 THEN sign \o D \o [i \in 1..(0 - e) |-> "0"] \o <<".", "0">>
        ELSE IF k > e THEN sign \o SubSeq(D, 1, k - e) \o <<".">> \o SubSeq(D, k - e + 1, k)
        ELSE sign \o <<"0", ".">> \o [i \in 1..(e - k) |-> "0"] \o D

-----------------------------------------------------------------------------
(* datetime.strptime(s, '%d/%m/%Y').strftime('%Y-%m-%d').  The pattern of   *)
(* strptime is a str pattern: its \d matches the decimal digits of every   *)
(* script, its classes [0-1], [1-2], [1-9] the ASCII digits only.           *)

\* The text split at every "/".
RECURSIVE SplitSlash(_)
SplitSlash(s) ==
    LET cuts == {i \in 1..Len(s) : s[i] = "/"}
    IN  IF cuts = {} THEN <<s>>
        ELSE LET c == SetMin(cuts)
             IN  <<SubSeq(s, 1, c - 1)>> \o SplitSlash(SubSeq(s, c + 1, Len(s)))

\* %d: 3[0-1] | [1-2]\d | 0[1-9] | [1-9] | " "[1-9]
DayOk(d) ==
    \/ Len(d) = 2 /\ d[1] = "3" /\ d[2] \in {"0", "1"}
    \/ Len(d) = 2 /\ d[1] \in {"1", "2"} /\ IsDigit(d[2])
    \/ Len(d) = 2 /\ d[1] \in {"0", " "} /\ IsAsciiDigit(d[2]) /\ d[2] # "0"
    \/ Len(d) = 1 /\ IsAsciiDigit(d[1]) /\ d[1] # "0"

\* %m: 1[0-2] | 0[1-9] | [1-9]
MonthOk(m) ==
    \/ Len(m) = 2 /\ m[1] = "1" /\ m[2] \in {"0", "1", "2"}
    \/ Len(m) = 2 /\ m[1] = "0" /\ IsAsciiDigit(m[2]) /\ m[2] # "0"
    \/ Len(m) = 1 /\ IsAsciiDigit(m[1]) /\ m[1] # "0"

\* %Y: \d\d\d\d
YearOk(y) == Len(y) = 4 /\ AllDigits(y)

IsLeap(y) == (y % 4 = 0 /\ y % 100 # 0) \/ y % 400 = 0

DaysInMonth(y, m) ==
    IF m = 2 THEN (IF IsLeap(y) THEN 29 ELSE 28)
    ELSE IF m \in {4, 6, 9, 11} THEN 30 ELSE 31

DayNum(d) == DigitsVal(IF d[1] = " " THEN Tail(d) ELSE d)

\* Whether strptime(s, '%d/%m/%Y') returns (TRUE) or raises ValueError (FALSE).
DateOk(s) ==
    LET parts == SplitSlash(s)
    IN  /\ Len(parts) = 3
        /\ DayOk(parts[1]) /\ MonthOk(parts[2]) /\ YearOk(parts[3])
        /\ DigitsVal(parts[3]) >= 1
        /\ DayNum(parts[1]) <= DaysInMonth(DigitsVal(parts[3]), DigitsVal(parts[2]))

\* strftime('%Y-%m-%d') of the parsed date (the C library pads %m and %d to
\* two digits and leaves a year below 1000 unpadded).
DateIso(s) ==
    LET parts == SplitSlash(s)
    IN  ToDigits(DigitsVal(parts[3]), 1) \o <<"-">>
        \o ToDigits(DigitsVal(parts[2]), 2) \o <<"-">>
        \o ToDigits(DayNum(parts[1]), 2)

-----------------------------------------------------------------------------
(* dict: a sequence of <<key, value>> pairs in insertion order. *)

Has(d, k) == \E i \in 1..Len(d) : d[i][1] = k

Get(d, k) == d[CHOOSE i \in 1..Len(d) : d[i][1] = k][2]

\* d[k] = v: a new key is appended, an existing key keeps its place.
Put(d, k, v) ==
    IF Has(d, k)
    THEN [i \in 1..Len(d) |-> IF d[i][1] = k THEN <<k, v>> ELSE d[i]]
    ELSE Append(d, <<k, v>>)

Keys(d) == {d[i][1] : i \in 1..Len(d)}

-----------------------------------------------------------------------------
(* The columns process_csv reads.  The first header name of the export      *)
(* is read under two names: with a byte-order mark (U+FEFF) before it and  *)
(* without.  Both end in two spaces and a downwards arrow (U+2193).         *)

COL_ORG_ID        == "Organisation: Organisation ID"
COL_ITEM_ID       == "Item ID"
COL_ITEM_NAME     == "Item Name"
COL_DETAILED_BOM  == "﻿Detailed Item ID  ↓"
COL_DETAILED      == "Detailed Item ID  ↓"
COL_DETAILED_NAME == "Detailed Item Name"
COL_SECTOR_ID     == "Sector Mapping ID"
COL_SECTOR_NAME   == "Sector Name"
COL_DATE          == "Validation Date"
COL_LATITUDE      == "Latitude"
COL_LONGITUDE     == "Longitude"
COL_ORG_NAME      == "Organisation: Organisation Name"
COL_STREET        == "Organisation: Billing Street"
COL_CITY          == "Organisation: Billing City"
COL_STATE         == "Organisation: Billing State/Province"
COL_ZIP           == "Organisation: Billing Zip/Postal Code"
COL_FORMATTED     == "Formatted_Address"
COL_CAPABILITY    == "Organisation Capability"
COL_CAP_TYPE      == "Capability Type"

\* The literal the detailed-item column is compared with.
Subtotal == <<"S", "u", "b", "t", "o", "t", "a", "l">>

\* row.get(col, default)
RowGet(row, col, default) == IF col \in DOMAIN row THEN row[col] ELSE default

\* row.get(col, '')
Cell(row, col) == RowGet(row, col, <<>>)

-----------------------------------------------------------------------------
(* One iteration of the row loop, statement by statement. *)

\* Mutant: the organisation cell is tested without being stripped.
SkippedUnlessEmpty(row) == ~Truthy(RowGet(row, COL_ORG_ID, None))

\* The row is skipped by the `continue` of the loop's first statement.
Skipped(row) ==
    \/ ~Truthy(RowGet(row, COL_ORG_ID, None))
    \/ Strip(RowGet(row, COL_ORG_ID, None)) = <<>>

ItemIdOf(row) == Strip(Cell(row, COL_ITEM_ID))

ItemNameOf(row) == Strip(Cell(row, COL_ITEM_NAME))

DetailedItemIdRaw(row) ==
    Strip(Or(Cell(row, COL_DETAILED_BOM), Cell(row, COL_DETAILED)))

DetailedItemNameOf(row) == Strip(Cell(row, COL_DETAILED_NAME))

\* The test that a detailed-item cell opens a group.
OpensDetailedGroup(raw) == Truthy(raw) /\ raw # Subtotal

SectorMappingIdRaw(row) == Strip(Cell(row, COL_SECTOR_ID))

SectorNameOf(row) == Strip(Cell(row, COL_SECTOR_NAME))

\* The test that a sector-mapping cell opens a group.
OpensSectorGroup(raw) == Truthy(raw)

\* Mutant: the identifier is used as written.
NormalizeOrgIdAsIs(raw) == raw

\* organisation_id: the stripped cell, upper-cased.
NormalizeOrgId(raw) == IF Truthy(raw) THEN Upper(raw) ELSE <<>>

OrganisationIdOf(row) == NormalizeOrgId(Strip(Cell(row, COL_ORG_ID)))

\* validation_date
ValidationDateOf(row) ==
    LET date_str == Strip(Cell(row, COL_DATE))
    IN  IF ~Truthy(date_str) THEN None
        ELSE IF Contains(date_str, "/")
             THEN (IF DateOk(date_str) THEN DateIso(date_str) ELSE None)
             ELSE date_str

\* latitude after the guarded block
LatitudeOf(row) ==
    LET lat_str == Strip(Cell(row, COL_LATITUDE))
    IN  IF Truthy(lat_str) /\ FloatOk(lat_str) THEN FloatVal(lat_str) ELSE None

\* Mutant: longitude is parsed whatever became of latitude.
LongitudeOfAlone(row) ==
    LET lon_str == Strip(Cell(row, COL_LONGITUDE))
    IN  IF Truthy(lon_str) /\ FloatOk(lon_str) THEN FloatVal(lon_str) ELSE None

\* longitude after the guarded block: a ValueError of float(lat_str) leaves
\* the block before longitude is assigned.
LongitudeOf(row) ==
    LET lat_str == Strip(Cell(row, COL_LATITUDE))
        lon_str == Strip(Cell(row, COL_LONGITUDE))
    IN  IF Truthy(lat_str) /\ ~FloatOk(lat_str) THEN None
        ELSE IF Truthy(lon_str) /\ FloatOk(lon_str) THEN FloatVal(lon_str)
        ELSE None

\* The text fields of an Organisation, in the order the code fills them, with
\* the column each is read from and the line of the merge branch that reads it.
OrgTextFields ==
    << <<"organisationName", COL_ORG_NAME, 130>>,
       <<"billingStreet", COL_STREET, 132>>,
       <<"billingCity", COL_CITY, 134>>,
       <<"billingStateProvince", COL_STATE, 136>>,
       <<"billingZipPostalCode", COL_ZIP, 138>>,
       <<"formattedAddress", COL_FORMATTED, 140>> >>

OrgFields ==
    {"organisationName", "billingStreet", "billingCity", "billingStateProvince",
     "billingZipPostalCode", "formattedAddress", "latitude", "longitude"}

\* Mutant: the stripped cell is stored as it is, empty or not.
StripOnly(row, col) == Strip(Cell(row, col))

\* row.get(col, '').strip() or None
StripOrNone(row, col) == Or(Strip(Cell(row, col)), None)

-----------------------------------------------------------------------------
(* A cell that is None makes `.strip()` raise AttributeError, which nothing *)
(* in process_csv catches: the pass ends at that statement, with the        *)
(* effects of the statements before it in place.                            *)

\* The statements of one iteration that call .strip() on a cell, as
\* <<line, raises>>, in execution order.
StripCalls(orgs, row) ==
    LET oid   == OrganisationIdOf(row)
        fresh == ~Has(orgs, oid)
        org   == IF fresh THEN [f \in OrgFields |-> None] ELSE Get(orgs, oid)
        text  == [i \in 1..Len(OrgTextFields) |->
                    <<IF fresh THEN 113 + i ELSE OrgTextFields[i][3],
                      /\ fresh \/ ~Truthy(org[OrgTextFields[i][1]])
                      /\ IsNone(Cell(row, OrgTextFields[i][2]))>>]
    IN  << <<39, IsNone(Cell(row, COL_ITEM_ID))>>,
           <<40, IsNone(Cell(row, COL_ITEM_NAME))>>,
           <<46, IsNone(Or(Cell(row, COL_DETAILED_BOM), Cell(row, COL_DETAILED)))>>,
           <<47, IsNone(Cell(row, COL_DETAILED_NAME))>>,
           <<63, IsNone(Cell(row, COL_SECTOR_ID))>>,
           <<64, IsNone(Cell(row, COL_SECTOR_NAME))>>,
           <<85, IsNone(Cell(row, COL_DATE))>>,
           <<100, IsNone(Cell(row, COL_LATITUDE))>>,
           <<101, IsNone(Cell(row, COL_LONGITUDE))>> >>
        \o text
        \o << <<147, IsNone(Cell(row, COL_CAPABILITY))>>,
              <<154, /\ Truthy(Strip(Cell(row, COL_CAPABILITY)))
                     /\ IsNone(Cell(row, COL_CAP_TYPE))>> >>

\* strptime raises ValueError at line 90.
DateParseRaises(row) ==
    LET date_str == Strip(Cell(row, COL_DATE))
    IN  Truthy(date_str) /\ Contains(date_str, "/") /\ ~DateOk(date_str)

\* Mutant: the ValueError of strptime leaves the iteration.
DateErrorUncaught(row) == DateParseRaises(row)

\* Whether the ValueError of strptime leaves the iteration: never, the
\* handler of lines 93-94 catches it.
DateErrorEscapes(row) == FALSE

\* The line of the statement whose exception ends the pass in this
\* iteration (the statements run in line order), 0 when none does.
CrashLine(orgs, row) ==
    LET calls == StripCalls(orgs, row) \o << <<90, DateErrorEscapes(row)>> >>
        bad   == {calls[i][1] : i \in {j \in 1..Len(calls) : calls[j][2]}}
    IN  IF Skipped(row) \/ bad = {} THEN 0 ELSE SetMin(bad)

\* Whether the iteration gets past the statement at `line`.
Reached(orgs, row, line) == CrashLine(orgs, row) = 0 \/ CrashLine(orgs, row) > line

-----------------------------------------------------------------------------
(* The effect of one iteration on each piece of state. *)

\* self.items after the row
ItemsAfter(its, row) ==
    IF Truthy(ItemIdOf(row)) /\ Truthy(ItemNameOf(row))
    THEN Put(its, ItemIdOf(row), ItemNameOf(row))
    ELSE its

\* current_detailed_item_id after the row
DetailedSlotAfter(cur, row) ==
    IF OpensDetailedGroup(DetailedItemIdRaw(row)) THEN DetailedItemIdRaw(row) ELSE cur

\* self.detailed_items after the row
DetailedItemsAfter(dis, row) ==
    IF OpensDetailedGroup(DetailedItemIdRaw(row)) /\ Truthy(DetailedItemNameOf(row))
    THEN Put(dis, DetailedItemIdRaw(row),
             [detailedItemName |-> DetailedItemNameOf(row),
              itemId |-> IF Truthy(ItemIdOf(row)) THEN ItemIdOf(row) ELSE None])
    ELSE dis

\* current_sector_mapping_id after the row
SectorSlotAfter(cur, row) ==
    IF OpensSectorGroup(SectorMappingIdRaw(row)) THEN SectorMappingIdRaw(row) ELSE cur

\* sector_mapping_id: the row's own cell, or the slot
SectorMappingIdOf(cur, row) ==
    IF OpensSectorGroup(SectorMappingIdRaw(row)) THEN SectorMappingIdRaw(row) ELSE cur

\* self.sectors after the row
SectorsAfter(secs, cur, row) ==
    IF Truthy(SectorMappingIdOf(cur, row)) /\ Truthy(SectorNameOf(row))
    THEN Put(secs, SectorMappingIdOf(cur, row), SectorNameOf(row))
    ELSE secs

\* The record built the first time an organisation is seen.
NewOrganisation(row) ==
    [organisationId       |-> OrganisationIdOf(row),
     organisationName     |-> StripOrNone(row, COL_ORG_NAME),
     billingStreet        |-> StripOrNone(row, COL_STREET),
     billingCity          |-> StripOrNone(row, COL_CITY),
     billingStateProvince |-> StripOrNone(row, COL_STATE),
     billingZipPostalCode |-> StripOrNone(row, COL_ZIP),
     formattedAddress     |-> StripOrNone(row, COL_FORMATTED),
     latitude             |-> LatitudeOf(row),
     longitude            |-> LongitudeOf(row)]

\* Whether a stored coordinate is replaced by the row's.
FillsCoordinate(stored, new) == ~Truthy(stored) /\ Truthy(new)

\* Whether a stored text field is replaced by the row's.
FillsText(stored) == ~Truthy(stored)

\* An existing record after the merge branch; `upto` is the line the
\* iteration stops at (0: it completes).
MergedOrganisation(existing, row, upto) ==
    LET done(line) == upto = 0 \/ upto > line
        text(i) == IF done(OrgTextFields[i][3]) /\ FillsText(existing[OrgTextFields[i][1]])
                   THEN StripOrNone(row, OrgTextFields[i][2])
                   ELSE existing[OrgTextFields[i][1]]
    IN  [organisationId       |-> existing.organisationId,
         organisationName     |-> text(1),
         billingStreet        |-> text(2),
         billingCity          |-> text(3),
         billingStateProvince |-> text(4),
         billingZipPostalCode |-> text(5),
         formattedAddress     |-> text(6),
         latitude             |-> IF done(142) /\ FillsCoordinate(existing.latitude, LatitudeOf(row))
                                  THEN LatitudeOf(row) ELSE existing.latitude,
         longitude            |-> IF done(144) /\ FillsCoordinate(existing.longitude, LongitudeOf(row))
                                  THEN LongitudeOf(row) ELSE existing.longitude]

\* self.organisations after the row
OrganisationsAfter(orgs, row) ==
    LET oid  == OrganisationIdOf(row)
        upto == CrashLine(orgs, row)
    IN  IF ~Truthy(oid) \/ ~Reached(orgs, row, 101) THEN orgs
        ELSE IF ~Has(orgs, oid)
             THEN (IF Reached(orgs, row, 123) THEN Put(orgs, oid, NewOrganisation(row)) ELSE orgs)
             ELSE Put(orgs, oid, MergedOrganisation(Get(orgs, oid), row, upto))

\* Mutant: the capability carries the identifier as the row wrote it.
CapabilityOrgIdRaw(row) == Strip(Cell(row, COL_ORG_ID))

\* The organisationId a capability record carries.
CapabilityOrgId(row) == OrganisationIdOf(row)

\* The capability record of the row.
NewCapability(curD, curS, row) ==
    LET item_id           == ItemIdOf(row)
        detailed_item_id  == DetailedSlotAfter(curD, row)
        sector_mapping_id == SectorMappingIdOf(curS, row)
    IN  [organisationCapability |-> Strip(Cell(row, COL_CAPABILITY)),
         organisationId         |-> CapabilityOrgId(row),
         itemId                 |-> IF Truthy(item_id) THEN item_id ELSE None,
         detailedItemId         |-> IF Truthy(detailed_item_id) THEN detailed_item_id ELSE None,
         capabilityType         |-> StripOrNone(row, COL_CAP_TYPE),
         validationDate         |-> ValidationDateOf(row),
         sectorMappingId        |-> IF Truthy(sector_mapping_id) THEN sector_mapping_id ELSE None]

\* Whether the row appends a capability record.
AppendsCapability(row) ==
    Truthy(OrganisationIdOf(row)) /\ Truthy(Strip(Cell(row, COL_CAPABILITY)))

\* Mutant: a record equal to one already in the list is not appended.
CapabilitiesAfterDeduplicated(caps, curD, curS, row) ==
    IF /\ AppendsCapability(row)
       /\ \A k \in 1..Len(caps) : caps[k] # NewCapability(curD, curS, row)
    THEN Append(caps, NewCapability(curD, curS, row))
    ELSE caps

\* self.capabilities after the row
CapabilitiesAfter(caps, curD, curS, row) ==
    IF AppendsCapability(row) THEN Append(caps, NewCapability(curD, curS, row)) ELSE caps

-----------------------------------------------------------------------------
(* The rows a file is made of.  Every row of a file has the header's        *)
(* columns; a cell not named below is empty.                                *)

Header ==
    {COL_DETAILED_BOM, COL_DETAILED_NAME, COL_ITEM_ID, COL_ITEM_NAME,
     COL_SECTOR_ID, COL_SECTOR_NAME, COL_ORG_ID, COL_ORG_NAME, COL_STREET,
     COL_CITY, COL_STATE, COL_ZIP, COL_CAPABILITY, COL_CAP_TYPE, COL_DATE,
     COL_FORMATTED, COL_LATITUDE, COL_LONGITUDE}

BlankRow == [c \in Header |-> <<>>]

\* A row of the grouped columns: organisation id, item id and name,
\* detailed-item id and name, sector id and name, capability label.
GroupRow(org, item, iname, did, dname, sid, sname, cap) ==
    [BlankRow EXCEPT ![COL_ORG_ID] = org,
                     ![COL_ITEM_ID] = item, ![COL_ITEM_NAME] = iname,
                     ![COL_DETAILED_BOM] = did, ![COL_DETAILED_NAME] = dname,
                     ![COL_SECTOR_ID] = sid, ![COL_SECTOR_NAME] = sname,
                     ![COL_CAPABILITY] = cap]

GroupRows ==
    { \* a full row opening detailed group D and sector group S
      GroupRow(<<"a">>, <<"I">>, <<"n">>, <<"D">>, <<"p">>, <<"S">>, <<"u">>, <<"c">>),
      \* the same identifiers under other names
      GroupRow(<<"a">>, <<"I">>, <<"m">>, <<"D">>, <<"q">>, <<"S">>, <<"v">>, <<"c">>),
      \* a continuation row: the grouped cells are blank
      GroupRow(<<"a">>, <<>>, <<>>, <<>>, <<>>, <<>>, <<>>, <<"c">>),
      \* a continuation row that names the sector
      GroupRow(<<"a">>, <<>>, <<>>, <<>>, <<>>, <<>>, <<"w">>, <<"c">>),
      \* a row opening groups E and T without names
      GroupRow(<<"a">>, <<>>, <<>>, <<"E">>, <<>>, <<"T">>, <<>>, <<"c">>),
      \* a row opening groups E and T, with no organisation
      GroupRow(<<>>, <<"J">>, <<"n">>, <<"E">>, <<"p">>, <<"T">>, <<"u">>, <<"c">>),
      \* the same with an organisation cell of white space
      GroupRow(<<" ">>, <<"J">>, <<"n">>, <<"E">>, <<"p">>, <<"T">>, <<"u">>, <<"c">>),
      \* an item identifier without a name, under detailed item D of no item
      GroupRow(<<"a">>, <<"J">>, <<>>, <<" ", "D">>, <<"p">>, <<>>, <<>>, <<"c">>),
      \* subtotal rows
      GroupRow(<<"a">>, <<>>, <<>>, Subtotal, <<>>, <<>>, <<>>, <<"c">>),
      GroupRow(<<"a">>, <<>>, <<>>, Subtotal, <<>>, <<"T">>, <<"u">>, <<>>),
      GroupRow(<<"a">>, <<>>, <<>>, Subtotal \o <<":">>, <<>>, <<>>, <<>>, <<>>),
      \* the sector cell holds the summary literal
      GroupRow(<<"a">>, <<>>, <<>>, <<>>, <<>>, Subtotal, <<>>, <<"c">>) }

\* A row of the organisation columns: organisation id, name, street,
\* latitude, longitude, capability label.
OrgRow(org, name, street, lat, lon, cap) ==
    [BlankRow EXCEPT ![COL_ORG_ID] = org, ![COL_ORG_NAME] = name,
                     ![COL_STREET] = street,
                     ![COL_LATITUDE] = lat, ![COL_LONGITUDE] = lon,
                     ![COL_CAPABILITY] = cap]

OrgRows ==
    { OrgRow(<<"a">>, <<"n">>, <<>>, <<"0">>, <<>>, <<"c">>),
      OrgRow(<<"A">>, <<"m">>, <<"s">>, <<"5">>, <<"7">>, <<"c">>),
      OrgRow(<<" ", "a", " ">>, <<>>, <<"t">>, <<"x">>, <<"7">>, <<>>),
      OrgRow(<<"a">>, <<>>, <<>>, <<>>, <<>>, <<"c">>),
      OrgRow(<<"b", "1">>, <<" ">>, <<>>, <<>>, <<"0", ".", "0">>, <<"c">>),
      OrgRow(<<"B", "1">>, <<"n">>, <<" ">>, <<"-", "3", "7", ".", "8">>, <<"x">>, <<"d">>),
      OrgRow(<<" ">>, <<"n">>, <<"s">>, <<"5">>, <<"7">>, <<"c">>),
      \* the id is a form feed and U+00E9, the coordinates are -0.0 and 1e-05
      OrgRow(<<"\f", "é">>, <<"n">>, <<>>, <<"-", "0">>, <<"1", "e", "-", "5">>, <<"c">>),
      \* the id is a vertical tab (U+000B) and a no-break space (U+00A0)
      OrgRow(<<"", " ">>, <<"n">>, <<"s">>, <<"5">>, <<"7">>, <<"c">>) }

\* A row of the validation-date column: organisation id, date, label.
DateRow(org, date, cap) ==
    [BlankRow EXCEPT ![COL_ORG_ID] = org, ![COL_DATE] = date,
                     ![COL_CAPABILITY] = cap]

DateRows ==
    { DateRow(<<"a">>, <<"0", "5", "/", "0", "3", "/", "2", "0", "2", "4">>, <<"c">>),
      DateRow(<<"a">>, <<"n", "o", "t", "-", "a", "-", "d", "a", "t", "e">>, <<"c">>),
      DateRow(<<"a">>, <<"3", "1", "/", "0", "2", "/", "2", "0", "2", "4">>, <<"c">>),
      DateRow(<<"b">>, <<"5", "/", "3", "/", "2", "0", "2", "4">>, <<"d">>),
      DateRow(<<"a">>, <<"2", "0", "2", "4", "-", "0", "3", "-", "0", "5">>, <<"c">>),
      DateRow(<<"a">>, <<" ">>, <<"c">>),
      DateRow(<<"a">>, <<"1", "/", "1", "3", "/", "2", "0", "2", "4">>, <<>>),
      DateRow(<<"b">>, <<"2", "9", "/", "0", "2", "/", "2", "0", "2", "4">>, <<"c">>),
      DateRow(<<>>, <<"0", "5", "/", "0", "3", "/", "2", "0", "2", "4">>, <<"c">>),
      \* a Bengali three (U+09E9) where %d has \d, and where it has [1-9]
      DateRow(<<"a">>, <<"1", "৩", "/", "0", "1", "/", "2", "0", "2", "4">>, <<"c">>),
      DateRow(<<"b">>, <<"৩", "/", "1", "/", "2", "0", "2", "4">>, <<"c">>) }

\* A row of the coordinate columns: organisation id, latitude, longitude,
\* label.  Latitude and Longitude are the last columns the pass reads from
\* the enriched file; a line cut short before one of them leaves it, and
\* the cells after it, None.
CoordRow(org, lat, lon, cap) ==
    [BlankRow EXCEPT ![COL_ORG_ID] = org, ![COL_LATITUDE] = lat,
                     ![COL_LONGITUDE] = lon, ![COL_CAPABILITY] = cap]

CoordRows ==
    { CoordRow(<<"a">>, <<>>, <<>>, <<"c">>),
      CoordRow(<<"a">>, <<"x">>, <<"7">>, <<"c">>),
      CoordRow(<<"b">>, <<"5">>, <<"x">>, <<"c">>),
      CoordRow(<<"a">>, <<"5">>, <<"7">>, <<>>),
      CoordRow(<<"b">>, <<"5">>, None, <<"c">>),
      CoordRow(<<"a">>, None, None, <<"c">>),
      CoordRow(<<"c">>, <<"-", "3", "7", ".", "8">>, <<"1", "4", "4", ".", "9">>, <<"c">>),
      CoordRow(<<>>, None, None, <<"c">>),
      \* -0.0 and nan; a Bengali three (U+09E9) and a digit-group underscore
      CoordRow(<<"c">>, <<"-", "0">>, <<"n", "a", "n">>, <<"c">>),
      CoordRow(<<"a">>, <<"৩">>, <<"1", "_", "0">>, <<"c">>) }

Rows == GroupRows \cup OrgRows

-----------------------------------------------------------------------------
(* The geocoder (src/Database/geocode_addresses.py).                       *)
(*                                                                         *)
(* A csv.reader row is a sequence of str cells; row[i] of the code is      *)
(* row[i + 1] here.  An int is <<"int", n>>.  What a backend answers is an *)
(* input of the step:                                                      *)
(*   <<"error">>          the request, the status check or the decoding    *)
(*                        raises                                           *)
(*   <<"empty">>          the service found nothing                        *)
(*   <<"data", a, b>>     Nominatim: the texts of "lat" and "lon";         *)
(*                        Photon: the numbers of [lon, lat]                *)

PyInt(n) == <<"int", n>>

IsInt(v) == Len(v) = 2 /\ v[1] = "int"

NA == <<"#", "N", "/", "A">>

NOMINATIM == <<"n", "o", "m", "i", "n", "a", "t", "i", "m">>

PHOTON == <<"p", "h", "o", "t", "o", "n">>

SUCCESS == <<"s", "u", "c", "c", "e", "s", "s">>

FAILED == <<"f", "a", "i", "l", "e", "d">>

EMPTY_ADDRESS == <<"e", "m", "p", "t", "y", "_", "a", "d", "d", "r", "e", "s", "s">>

SKIPPED == <<"s", "k", "i", "p", "p", "e", "d">>

batch_size == 10

\* The five columns the geocoder appends to the header.
GeocodingHeaders ==
    << <<"F", "o", "r", "m", "a", "t", "t", "e", "d", "_", "A", "d", "d", "r", "e", "s", "s">>,
       <<"L", "a", "t", "i", "t", "u", "d", "e">>,
       <<"L", "o", "n", "g", "i", "t", "u", "d", "e">>,
       <<"G", "e", "o", "c", "o", "d", "i", "n", "g", "_", "S", "e", "r", "v", "i", "c", "e">>,
       <<"G", "e", "o", "c", "o", "d", "i", "n", "g", "_", "S", "t", "a", "t", "u", "s">> >>

\* geocode_nominatim: the coordinates <<lat, lon>> or None.  Every
\* exception of the body, float() of a malformed text included, is caught.
GeocodeNominatim(answer) ==
    IF answer[1] = "data" /\ FloatOk(answer[2]) /\ FloatOk(answer[3])
    THEN <<FloatVal(answer[2]), FloatVal(answer[3])>>
    ELSE None

\* geocode_photon: Photon answers [lon, lat], the result is <<lat, lon>>.
GeocodePhoton(answer) ==
    IF answer[1] = "data" THEN <<answer[3], answer[2]>> ELSE None

\* str.rstrip(','): trailing commas removed.
RECURSIVE RstripComma(_)
RstripComma(s) ==
    IF Len(s) > 0 /\ s[Len(s)] = "," THEN RstripComma(SubSeq(s, 1, Len(s) - 1))
    ELSE s

\* ', '.join(parts)
RECURSIVE JoinComma(_)
JoinComma(parts) ==
    IF Len(parts) = 0 THEN <<>>
    ELSE IF Len(parts) = 1 THEN parts[1]
    ELSE parts[1] \o <<",", " ">> \o JoinComma(Tail(parts))

\* The test `part and part.strip() and part != '#N/A'`.
UsablePart(part) == Len(part) > 0 /\ Strip(part) # <<>> /\ part # NA

format_address(street, city, state, postcode) ==
    JoinComma(
        (IF UsablePart(street) THEN <<RstripComma(Strip(street))>> ELSE <<>>)
        \o (IF UsablePart(city) THEN <<Strip(city)>> ELSE <<>>)
        \o (IF UsablePart(state) THEN <<Strip(state)>> ELSE <<>>)
        \o (IF UsablePart(postcode) THEN <<Strip(postcode)>> ELSE <<>>))

\* Mutant: Photon is queried whatever Nominatim returned.
QueriesPhotonAlways(coords) == TRUE

\* Whether Photon is queried after Nominatim returned `coords`: a pair is
\* truthy, None is not.
QueriesPhoton(coords) == IsNone(coords)

GeocodeResult(address, coords, service, status) ==
    [formatted_address |-> address,
     latitude          |-> IF IsNone(coords) THEN None ELSE coords[1],
     longitude         |-> IF IsNone(coords) THEN None ELSE coords[2],
     geocoding_service |-> service,
     status            |-> status]

\* geocode_address, given what each backend would answer.
geocode_address(street, city, state, postcode, nominatim, photon) ==
    LET address == format_address(street, city, state, postcode)
        first   == GeocodeNominatim(nominatim)
        second  == GeocodePhoton(photon)
    IN  IF address = <<>> \/ Strip(address) = <<>>
        THEN GeocodeResult(<<>>, None, None, EMPTY_ADDRESS)
        ELSE IF ~QueriesPhoton(first)
        THEN GeocodeResult(address, first, NOMINATIM, SUCCESS)
        ELSE IF ~IsNone(second)
        THEN GeocodeResult(address, second, PHOTON, SUCCESS)
        ELSE GeocodeResult(address, None, None, FAILED)

\* The requests geocode_address sends, in order, each with its answer.
RequestsOf(street, city, state, postcode, nominatim, photon) ==
    LET address == format_address(street, city, state, postcode)
    IN  IF address = <<>> \/ Strip(address) = <<>> THEN <<>>
        ELSE IF ~QueriesPhoton(GeocodeNominatim(nominatim))
        THEN << <<NOMINATIM, address, nominatim>> >>
        ELSE << <<NOMINATIM, address, nominatim>>, <<PHOTON, address, photon>> >>

\* row[i] if len(row) > i else ''.
CellAt(row, i) == IF Len(row) > i THEN row[i + 1] ELSE <<>>

\* The test of lines 184-186: the row has an address to geocode.
HasAddress(row) ==
    /\ Len(row) > 10
    /\ row[11] \notin {NA, <<>>}
    /\ ~StartsWith(row[1], Subtotal)

\* new_row of one iteration.
NewRow(row, nominatim, photon) ==
    IF HasAddress(row)
    THEN LET r == geocode_address(CellAt(row, 10), CellAt(row, 11), CellAt(row, 12),
                                  CellAt(row, 13), nominatim, photon)
         IN  row \o <<r.formatted_address, r.latitude, r.longitude,
                      r.geocoding_service, r.status>>
    ELSE row \o <<<<>>, <<>>, <<>>, <<>>, SKIPPED>>

\* str(n) of an int
IntStr(v) ==
    IF v[2] < 0 THEN <<"-">> \o ToDigits(0 - v[2], 1) ELSE ToDigits(v[2], 1)

\* Mutant: None is written as it is, not as the empty field.
CsvFieldKeepingNone(v) ==
    IF IsFloat(v) THEN FloatStr(v) ELSE IF IsInt(v) THEN IntStr(v) ELSE v

\* The field csv.writer writes for a value: '' for None, str(x) for a float
\* and for an int (Photon answers the numbers of its JSON, an int where the
\* coordinate is written without a fraction).
CsvField(v) ==
    IF IsNone(v) THEN <<>>
    ELSE IF IsFloat(v) THEN FloatStr(v)
    ELSE IF IsInt(v) THEN IntStr(v)
    ELSE v

CsvLine(row) == [i \in 1..Len(row) |-> CsvField(row[i])]

CsvLines(rows) == [n \in 1..Len(rows) |-> CsvLine(rows[n])]

\* `max_rows and processed_count >= max_rows`
MaxReached(max, count) == ~IsNone(max) /\ max[2] # 0 /\ count >= max[2]

-----------------------------------------------------------------------------
(* The exporters: generate_sql_inserts and export_to_csv.                  *)
(*                                                                         *)
(* An INSERT line is <<table, values>>: the values are the texts between   *)
(* the parentheses of VALUES, which the line joins with ', '; the rest of  *)
(* the line is fixed per table.  Comment and blank lines are left out.     *)

Quote == "'"

\* s.replace("'", "''")
RECURSIVE SqlEscape(_)
SqlEscape(s) ==
    IF Len(s) = 0 THEN <<>>
    ELSE (IF s[1] = Quote THEN <<Quote, Quote>> ELSE <<s[1]>>) \o SqlEscape(Tail(s))

\* f"'{s}'"
SqlQuoted(s) == <<Quote>> \o s \o <<Quote>>

NULL == <<"N", "U", "L", "L">>

format_value(value) ==
    IF IsNone(value) \/ value = <<>> THEN NULL
    ELSE IF IsFloat(value) THEN FloatStr(value)
    ELSE SqlQuoted(SqlEscape(value))

\* Mutant: the entries are iterated last to first.
EntriesReversed(collection) ==
    [i \in 1..Len(collection) |-> collection[Len(collection) + 1 - i]]

\* The entries of a dict, or the elements of a list, in iteration order:
\* the order of insertion.
Entries(collection) == collection

ItemStatement(entry) ==
    <<"Items", <<SqlQuoted(entry[1]), SqlQuoted(SqlEscape(entry[2]))>> >>

DetailedItemStatement(entry) ==
    <<"DetailedItems",
      <<SqlQuoted(entry[1]), SqlQuoted(SqlEscape(entry[2].detailedItemName)),
        IF Truthy(entry[2].itemId) THEN SqlQuoted(entry[2].itemId) ELSE NULL>> >>

SectorStatement(entry) ==
    <<"Sectors", <<SqlQuoted(entry[1]), SqlQuoted(SqlEscape(entry[2]))>> >>

OrganisationColumns ==
    <<"organisationId", "organisationName", "billingStreet", "billingCity",
      "billingStateProvince", "billingZipPostalCode", "formattedAddress",
      "latitude", "longitude">>

CapabilityColumns ==
    <<"organisationCapability", "organisationId", "itemId", "detailedItemId",
      "capabilityType", "validationDate", "sectorMappingId">>

OrganisationStatement(entry) ==
    <<"Organisations",
      [c \in 1..Len(OrganisationColumns) |-> format_value(entry[2][OrganisationColumns[c]])]>>

CapabilityStatement(cap) ==
    <<"Capabilities",
      [c \in 1..Len(CapabilityColumns) |-> format_value(cap[CapabilityColumns[c]])]>>

\* The INSERT lines of the file, in the order generate_sql_inserts writes them.
SqlStatements(its, dis, secs, orgs, caps) ==
    [i \in 1..Len(its) |-> ItemStatement(Entries(its)[i])]
    \o [i \in 1..Len(dis) |-> DetailedItemStatement(Entries(dis)[i])]
    \o [i \in 1..Len(secs) |-> SectorStatement(Entries(secs)[i])]
    \o [i \in 1..Len(orgs) |-> OrganisationStatement(Entries(orgs)[i])]
    \o [i \in 1..Len(caps) |-> CapabilityStatement(Entries(caps)[i])]

CsvFiles == {"items", "detailed_items", "sectors", "organisations", "capabilities"}

CsvHeader(name) ==
    IF name = "items" THEN <<<<"i", "t", "e", "m", "I", "d">>, <<"i", "t", "e", "m", "N", "a", "m", "e">>>>
    ELSE IF name = "detailed_items"
    THEN << <<"d", "e", "t", "a", "i", "l", "e", "d", "I", "t", "e", "m", "I", "d">>,
         <<"d", "e", "t", "a", "i", "l", "e", "d", "I", "t", "e", "m", "N", "a", "m", "e">>,
         <<"i", "t", "e", "m", "I", "d">> >>
    ELSE IF name = "sectors"
    THEN << <<"s", "e", "c", "t", "o", "r", "M", "a", "p", "p", "i", "n", "g", "I", "d">>,
         <<"s", "e", "c", "t", "o", "r", "N", "a", "m", "e">> >>
    ELSE IF name = "organisations"
    THEN << <<"o", "r", "g", "a", "n", "i", "s", "a", "t", "i", "o", "n", "I", "d">>,
         <<"o", "r", "g", "a", "n", "i", "s", "a", "t", "i", "o", "n", "N", "a", "m", "e">>,
         <<"b", "i", "l", "l", "i", "n", "g", "S", "t", "r", "e", "e", "t">>,
         <<"b", "i", "l", "l", "i", "n", "g", "C", "i", "t", "y">>,
         <<"b", "i", "l", "l", "i", "n", "g", "S", "t", "a", "t", "e", "P", "r", "o", "v", "i", "n", "c", "e">>,
         <<"b", "i", "l", "l", "i", "n", "g", "Z", "i", "p", "P", "o", "s", "t", "a", "l", "C", "o", "d", "e">>,
         <<"f", "o", "r", "m", "a", "t", "t", "e", "d", "A", "d", "d", "r", "e", "s", "s">>,
         <<"l", "a", "t", "i", "t", "u", "d", "e">>,
         <<"l", "o", "n", "g", "i", "t", "u", "d", "e">> >>
    ELSE << <<"o", "r", "g", "a", "n", "i", "s", "a", "t", "i", "o", "n", "C", "a", "p", "a", "b", "i", "l", "i", "t", "y">>,
         <<"o", "r", "g", "a", "n", "i", "s", "a", "t", "i", "o", "n", "I", "d">>,
         <<"i", "t", "e", "m", "I", "d">>,
         <<"d", "e", "t", "a", "i", "l", "e", "d", "I", "t", "e", "m", "I", "d">>,
         <<"c", "a", "p", "a", "b", "i", "l", "i", "t", "y", "T", "y", "p", "e">>,
         <<"v", "a", "l", "i", "d", "a", "t", "i", "o", "n", "D", "a", "t", "e">>,
         <<"s", "e", "c", "t", "o", "r", "M", "a", "p", "p", "i", "n", "g", "I", "d">> >>

ItemLine(entry) == CsvLine(<<entry[1], entry[2]>>)

DetailedItemLine(entry) ==
    CsvLine(<<entry[1], entry[2].detailedItemName, entry[2].itemId>>)

SectorLine(entry) == CsvLine(<<entry[1], entry[2]>>)

OrganisationLine(entry) ==
    CsvLine([c \in 1..Len(OrganisationColumns) |-> entry[2][OrganisationColumns[c]]])

CapabilityLine(cap) ==
    CsvLine([c \in 1..Len(CapabilityColumns) |-> cap[CapabilityColumns[c]]])

\* The five files export_to_csv writes.
CsvExport(its, dis, secs, orgs, caps) ==
    [name \in CsvFiles |->
        <<CsvHeader(name)>> \o
        (IF name = "items"
         THEN [i \in 1..Len(its) |-> ItemLine(Entries(its)[i])]
         ELSE IF name = "detailed_items"
         THEN [i \in 1..Len(dis) |-> DetailedItemLine(Entries(dis)[i])]
         ELSE IF name = "sectors"
         THEN [i \in 1..Len(secs) |-> SectorLine(Entries(secs)[i])]
         ELSE IF name = "organisations"
         THEN [i \in 1..Len(orgs) |-> OrganisationLine(Entries(orgs)[i])]
         ELSE [i \in 1..Len(caps) |-> CapabilityLine(Entries(caps)[i])])]

-----------------------------------------------------------------------------
(* The pass. *)

InitNormalizer ==
    /\ items = <<>>
    /\ detailed_items = <<>>
    /\ sectors = <<>>
    /\ organisations = <<>>
    /\ capabilities = <<>>
    /\ current_detailed_item_id = None
    /\ current_sector_mapping_id = None
    /\ file = <<>>
    /\ aborted = FALSE

\* The geocoder before a run.
GeocoderIdle ==
    /\ start_row = 0
    /\ max_rows = None
    /\ reader = <<>>
    /\ batch_results = <<>>
    /\ output = <<>>
    /\ processed_count = 0
    /\ requests = <<>>
    /\ finished = FALSE

\* Nothing exported yet.
ExportIdle ==
    /\ sql_out = <<>>
    /\ csv_out = [name \in CsvFiles |-> <<>>]
    /\ written = {}

Init == InitNormalizer /\ GeocoderIdle /\ ExportIdle

\* One iteration of `for row_num, row in enumerate(reader, start=2)`.
ProcessRow(row) ==
    /\ ~aborted
    /\ written = {}
    /\ Len(file) < MaxRows
    /\ file' = Append(file, row)
    /\ aborted' = (CrashLine(organisations, row) # 0)
    /\ UNCHANGED geocoder_vars
    /\ UNCHANGED export_vars
    /\ IF Skipped(row)
       THEN UNCHANGED <<items, detailed_items, sectors, organisations, capabilities,
                        current_detailed_item_id, current_sector_mapping_id>>
       ELSE /\ items' = IF Reached(organisations, row, 42)
                        THEN ItemsAfter(items, row) ELSE items
            /\ current_detailed_item_id' =
                   IF Reached(organisations, row, 51)
                   THEN DetailedSlotAfter(current_detailed_item_id, row)
                   ELSE current_detailed_item_id
            /\ detailed_items' = IF Reached(organisations, row, 57)
                                 THEN DetailedItemsAfter(detailed_items, row)
                                 ELSE detailed_items
            /\ current_sector_mapping_id' =
                   IF Reached(organisations, row, 68)
                   THEN SectorSlotAfter(current_sector_mapping_id, row)
                   ELSE current_sector_mapping_id
            /\ sectors' = IF Reached(organisations, row, 76)
                          THEN SectorsAfter(sectors, current_sector_mapping_id, row)
                          ELSE sectors
            /\ organisations' = OrganisationsAfter(organisations, row)
            /\ capabilities' =
                   IF Reached(organisations, row, 154)
                   THEN CapabilitiesAfter(capabilities, current_detailed_item_id,
                                          current_sector_mapping_id, row)
                   ELSE capabilities

Next == \E row \in Rows : ProcessRow(row)

Spec == Init /\ [][Next]_vars

\* The pass over a file of validation dates.
NextDates == \E row \in DateRows : ProcessRow(row)

SpecDates == Init /\ [][NextDates]_vars

\* The pass over a file of coordinates, some of its lines cut short.
NextCoords == \E row \in CoordRows : ProcessRow(row)

SpecCoords == Init /\ [][NextCoords]_vars

-----------------------------------------------------------------------------
(* The run of the geocoder: process_csv of geocode_addresses.py.  The      *)
(* initial state is the one after the header line has been written.        *)

\* The header row of the input file: fourteen columns, the address parts
\* in columns 10 to 13.
InputHeader ==
    <<<<"h", "0">>, <<"h", "1">>, <<"h", "2">>, <<"h", "3">>, <<"h", "4">>, <<"h", "5">>, <<"h", "6">>, <<"h", "7">>, <<"h", "8">>, <<"h", "9">>, <<"h", "1", "0">>, <<"h", "1", "1">>, <<"h", "1", "2">>, <<"h", "1", "3">>>>

GeoRows ==
    { <<<<"O", "1">>, <<>>, <<>>, <<>>, <<>>, <<>>, <<>>, <<>>, <<>>, <<>>, <<"1", " ", "A", ",">>, <<" ", "B">>>>,
      <<<<"O", "2">>, <<>>, <<>>, <<>>, <<>>, <<>>, <<>>, <<>>, <<>>, <<>>, <<"#", "N", "/", "A">>, <<"B">>, <<"V">>, <<"3">>>>,
      <<<<"S", "u", "b", "t", "o", "t", "a", "l", " ", "1">>, <<>>, <<>>, <<>>, <<>>, <<>>, <<>>, <<>>, <<>>, <<>>, <<"1", " ", "A">>, <<"B">>, <<"V">>, <<"3">>>>,
      <<<<"O", "3">>, <<>>, <<>>, <<>>, <<>>, <<>>, <<>>, <<>>, <<>>, <<>>, <<" ">>, <<"#", "N", "/", "A">>, <<>>, <<" ">>>>,
      <<<<"O", "5">>, <<"x">>>> }

NominatimAnswers ==
    { <<"error">>, <<"empty">>,
      <<"data", <<"0">>, <<"1", "e", "-", "5">>>>,
      <<"data", <<"x">>, <<"1">>>> }

PhotonAnswers ==
    { <<"error">>, <<"empty">>, <<"data", Float(1449, 1), PyInt(-38)>> }

InitGeo ==
    /\ InitNormalizer
    /\ ExportIdle
    /\ start_row \in {0, 1}
    /\ max_rows \in {None, PyInt(0), PyInt(1)}
    /\ reader = <<>>
    /\ batch_results = <<>>
    /\ output = <<InputHeader \o GeocodingHeaders>>
    /\ processed_count = 0
    /\ requests = <<>>
    /\ finished = FALSE

\* One `next(reader)` of the loop that skips the first start_row rows.
SkipRow(row) ==
    /\ ~finished
    /\ Len(reader) < start_row
    /\ reader' = Append(reader, row)
    /\ UNCHANGED <<start_row, max_rows, batch_results, output, processed_count,
                   requests, finished>>
    /\ UNCHANGED normalizer_vars
    /\ UNCHANGED export_vars

\* One iteration of `for row_num, row in enumerate(reader, ...)` that does
\* not break.
GeocodeRow(row, nominatim, photon) ==
    /\ ~finished
    /\ Len(reader) >= start_row
    /\ ~MaxReached(max_rows, processed_count)
    /\ reader' = Append(reader, row)
    /\ processed_count' = IF HasAddress(row) THEN processed_count + 1
                          ELSE processed_count
    /\ requests' = IF HasAddress(row)
                   THEN requests \o RequestsOf(CellAt(row, 10), CellAt(row, 11),
                                               CellAt(row, 12), CellAt(row, 13),
                                               nominatim, photon)
                   ELSE requests
    /\ LET batch == Append(batch_results, NewRow(row, nominatim, photon))
       IN  IF Len(batch) >= batch_size
           THEN /\ output' = output \o CsvLines(batch)
                /\ batch_results' = <<>>
           ELSE /\ batch_results' = batch
                /\ UNCHANGED output
    /\ UNCHANGED <<start_row, max_rows, finished>>
    /\ UNCHANGED normalizer_vars
    /\ UNCHANGED export_vars

\* Mutant: the rows left in the buffer are not written.
FinalWriteDropped ==
    /\ finished' = TRUE
    /\ UNCHANGED <<start_row, max_rows, batch_results, output, processed_count,
                   requests>>
    /\ UNCHANGED normalizer_vars
    /\ UNCHANGED export_vars

\* The write of the final batch (lines 229-233); batch_results is not
\* reassigned.
FinalWrite ==
    /\ output' = output \o CsvLines(batch_results)
    /\ finished' = TRUE
    /\ UNCHANGED <<start_row, max_rows, batch_results, processed_count, requests>>
    /\ UNCHANGED normalizer_vars
    /\ UNCHANGED export_vars

\* The iteration that reads a row, finds max_rows reached and breaks.
StopAtMax(row) ==
    /\ ~finished
    /\ Len(reader) >= start_row
    /\ MaxReached(max_rows, processed_count)
    /\ reader' = Append(reader, row)
    /\ FinalWrite

\* The reader is exhausted, in the skipping loop or in the row loop.
EndOfInput ==
    /\ ~finished
    /\ UNCHANGED reader
    /\ FinalWrite

\* The input file has a row left, within the bound.
RowLeft(bound) == Len(reader) < bound

NextGeo ==
    \/ \E row \in GeoRows : RowLeft(MaxGeoRows) /\ SkipRow(row)
    \/ \E row \in GeoRows, nominatim \in NominatimAnswers, photon \in PhotonAnswers :
          RowLeft(MaxGeoRows) /\ GeocodeRow(row, nominatim, photon)
    \/ \E row \in GeoRows : RowLeft(MaxGeoRows) /\ StopAtMax(row)
    \/ EndOfInput

SpecGeo == InitGeo /\ [][NextGeo]_vars

\* Runs of the geocoder long enough to fill a batch: a row with an address
\* that Nominatim answers at once and a row too short to have one.
BatchRows ==
    { <<<<"O", "1">>, <<>>, <<>>, <<>>, <<>>, <<>>, <<>>, <<>>, <<>>, <<>>, <<"1", " ", "A">>>>,
      <<<<"O", "5">>, <<"x">>>> }

BatchAnswer == <<"data", <<"0">>, <<"1", "4", "4", ".", "9">>>>

InitBatch ==
    /\ InitNormalizer
    /\ ExportIdle
    /\ start_row \in {0, 1}
    /\ max_rows \in {None, PyInt(11)}
    /\ reader = <<>>
    /\ batch_results = <<>>
    /\ output = <<InputHeader \o GeocodingHeaders>>
    /\ processed_count = 0
    /\ requests = <<>>
    /\ finished = FALSE

NextBatch ==
    \/ \E row \in BatchRows : RowLeft(MaxBatchRows) /\ SkipRow(row)
    \/ \E row \in BatchRows :
          RowLeft(MaxBatchRows) /\ GeocodeRow(row, BatchAnswer, <<"empty">>)
    \/ \E row \in BatchRows : RowLeft(MaxBatchRows) /\ StopAtMax(row)
    \/ EndOfInput

SpecBatch == InitBatch /\ [][NextBatch]_vars

-----------------------------------------------------------------------------
(* main() of normalize_data.py: the pass, then the SQL file unless         *)
(* --csv-only, then the CSV files unless --sql-only.                       *)

\* A row of every column group: organisation id and name, latitude and
\* longitude, item id and name, detailed-item id and name, sector id and
\* name, capability label.
ExportRow(org, name, lat, lon, item, iname, did, dname, sid, sname, cap) ==
    [GroupRow(org, item, iname, did, dname, sid, sname, cap)
        EXCEPT ![COL_ORG_NAME] = name, ![COL_LATITUDE] = lat, ![COL_LONGITUDE] = lon]

ExportRows ==
    { ExportRow(<<"b">>, <<"O", "'", "B">>, <<"5">>, <<"-", "3", "7", ".", "8">>,
                <<"I", "2">>, <<"n">>, <<"D", "2">>, <<"p">>, <<"S", "2">>, <<"u">>, <<"c">>),
      ExportRow(<<"a">>, <<"m">>, <<>>, <<>>,
                <<"I", "1">>, <<"n", "'">>, <<"D", "1">>, <<"q", "'">>, <<"S", "1">>, <<"v", "'">>, <<"c">>),
      ExportRow(<<"a">>, <<>>, <<"x">>, <<"1">>,
                <<>>, <<>>, <<>>, <<>>, <<>>, <<>>, <<"d">>),
      ExportRow(<<"o", "'">>, <<>>, <<>>, <<>>,
                <<"i", "'">>, <<"w">>, <<"d", "'">>, <<"x">>, <<"s", "'">>, <<"y">>, <<"c", "'">>),
      \* coordinates str() writes in exponent form
      ExportRow(<<"c">>, <<"n">>, <<"1", "e", "1", "6">>, <<"1", "e", "-", "5">>,
                <<>>, <<>>, <<>>, <<>>, <<>>, <<>>, <<"c">>) }

generate_sql_inserts ==
    /\ ~aborted
    /\ written = {}
    /\ sql_out' = SqlStatements(items, detailed_items, sectors, organisations,
                                capabilities)
    /\ written' = {"sql"}
    /\ UNCHANGED <<csv_out, normalizer_vars, geocoder_vars>>

export_to_csv ==
    /\ ~aborted
    /\ "csv" \notin written
    /\ csv_out' = CsvExport(items, detailed_items, sectors, organisations,
                            capabilities)
    /\ written' = written \cup {"csv"}
    /\ UNCHANGED <<sql_out, normalizer_vars, geocoder_vars>>

NextExport ==
    \/ \E row \in ExportRows : ProcessRow(row)
    \/ generate_sql_inserts
    \/ export_to_csv

SpecExport == Init /\ [][NextExport]_vars

-----------------------------------------------------------------------------
(* Vocabulary of the properties. *)

\* The row of the latest iteration.
LastRow == file[Len(file)]

\* The capability record appended last.
LastCapability == capabilities[Len(capabilities)]

\* The step is an iteration of the row loop.
RowStep == Len(file') = Len(file) + 1

\* The step appends a capability record.
CapabilityStep == Len(capabilities') = Len(capabilities) + 1

\* A subtotal row: its detailed-item cell equals or begins with the marker.
IsSubtotalRow(row) == StartsWith(DetailedItemIdRaw(row), Subtotal)

\* The group in effect before the last row of f according to the rows of the
\* file: the nearest preceding cell that is neither blank nor the marker.
DetailedGroupInFile(f) ==
    LET js == {j \in 1..(Len(f) - 1) : /\ DetailedItemIdRaw(f[j]) # <<>>
                                       /\ DetailedItemIdRaw(f[j]) # Subtotal}
    IN  IF js = {} THEN None ELSE DetailedItemIdRaw(f[SetMax(js)])

SectorGroupInFile(f) ==
    LET js == {j \in 1..(Len(f) - 1) : /\ SectorMappingIdRaw(f[j]) # <<>>
                                       /\ SectorMappingIdRaw(f[j]) # Subtotal}
    IN  IF js = {} THEN None ELSE SectorMappingIdRaw(f[SetMax(js)])

\* The same, counting only the rows that have an organisation identifier
\* (the others are passed over by the skip rule).
DetailedGroupProcessed(f) ==
    LET js == {j \in 1..(Len(f) - 1) : /\ Strip(Cell(f[j], COL_ORG_ID)) # <<>>
                                       /\ DetailedItemIdRaw(f[j]) # <<>>
                                       /\ DetailedItemIdRaw(f[j]) # Subtotal}
    IN  IF js = {} THEN None ELSE DetailedItemIdRaw(f[SetMax(js)])

SectorGroupProcessed(f) ==
    LET js == {j \in 1..(Len(f) - 1) : /\ Strip(Cell(f[j], COL_ORG_ID)) # <<>>
                                       /\ SectorMappingIdRaw(f[j]) # <<>>
                                       /\ SectorMappingIdRaw(f[j]) # Subtotal}
    IN  IF js = {} THEN None ELSE SectorMappingIdRaw(f[SetMax(js)])

\* Two texts differ at most in the case of their letters.
SameIgnoringCase(a, b) ==
    /\ Len(a) = Len(b)
    /\ \A i \in 1..Len(a) :
          \/ a[i] = b[i]
          \/ \E k \in 1..Len(LowerLetters) :
                {a[i], b[i]} = {LowerLetters[k], UpperLetters[k]}

HasNoLowerCase(s) ==
    \A i \in 1..Len(s) : \A k \in 1..Len(LowerLetters) : s[i] # LowerLetters[k]

-----------------------------------------------------------------------------
(* C1.  Once a non-key field of an Organisation holds a value, no later    *)
(* row changes it, numeric coordinates included.                           *)
(* Fails: a stored coordinate of 0.0 is tested by truthiness and is        *)
(* replaced by the next non-zero coordinate of the same organisation.      *)
C1_FilledFieldKept ==
    [][\A i \in 1..Len(organisations) : \A f \in OrgFields :
          ~IsNone(organisations[i][2][f])
              => organisations'[i][2][f] = organisations[i][2][f]]_vars

-----------------------------------------------------------------------------
(* C2.  A capability of a row whose grouped cell is blank carries the      *)
(* value of the nearest preceding row of the file whose cell was neither   *)
(* blank nor the summary marker, null when there is none.                  *)
(* Fails: the sector column is read without a test for the marker (line    *)
(* 67, against line 50 for the detailed-item column), so a sector cell     *)
(* 'Subtotal' opens a group and the blank rows after it carry 'Subtotal'   *)
(* instead of the group before it.                                         *)
C2_NearestRowOfFile ==
    [][CapabilityStep =>
          LET row == file'[Len(file')]
              cap == capabilities'[Len(capabilities')]
          IN  /\ DetailedItemIdRaw(row) = <<>>
                    => cap.detailedItemId = DetailedGroupInFile(file')
              /\ SectorMappingIdRaw(row) = <<>>
                    => cap.sectorMappingId = SectorGroupInFile(file')]_vars

(* C2 with the rows that have no organisation identifier left out of the   *)
(* preceding rows: they are skipped before their grouped cells are read    *)
(* (lines 35-36), as the skip rule says.  Fails in the same way: every     *)
(* violation is a sector cell 'Subtotal' that opened a group.              *)
C2_NearestProcessedRow ==
    [][CapabilityStep =>
          LET row == file'[Len(file')]
              cap == capabilities'[Len(capabilities')]
          IN  /\ DetailedItemIdRaw(row) = <<>>
                    => cap.detailedItemId = DetailedGroupProcessed(file')
              /\ SectorMappingIdRaw(row) = <<>>
                    => cap.sectorMappingId = SectorGroupProcessed(file')]_vars

-----------------------------------------------------------------------------
(* C3.  A subtotal row never appends a Capability record.                  *)
(* Fails: the row loop has no subtotal test; a subtotal row with an        *)
(* organisation identifier and a capability label appends a record.        *)
C3_SubtotalAppendsNothing ==
    [][RowStep /\ IsSubtotalRow(file'[Len(file')])
          => capabilities' = capabilities]_vars

-----------------------------------------------------------------------------
(* C4.  A subtotal row leaves both carry-forward slots as they were, and   *)
(* no slot ever holds a marker value.                                      *)
(* Fails: the sector cell of a subtotal row is read like any other.        *)
C4_SubtotalKeepsSlots ==
    [][RowStep =>
          /\ IsSubtotalRow(file'[Len(file')])
                => /\ current_detailed_item_id' = current_detailed_item_id
                   /\ current_sector_mapping_id' = current_sector_mapping_id
          /\ ~StartsWith(current_detailed_item_id', Subtotal)
          /\ ~StartsWith(current_sector_mapping_id', Subtotal)]_vars

-----------------------------------------------------------------------------
(* C5.  Items are first-write-wins: a registered itemId keeps its name.    *)
(* Fails: every row with an item id and name assigns items[item_id].       *)
C5_ItemNameKept ==
    [][\A i \in 1..Len(items) : items'[i] = items[i]]_vars

-----------------------------------------------------------------------------
(* C6.  Sectors are first-write-wins: a registered sectorMappingId keeps   *)
(* its name, whether a later row names the id or resolves to it through    *)
(* the slot.                                                               *)
(* Fails: every row with a resolved sector id and a name assigns it.       *)
C6_SectorNameKept ==
    [][\A i \in 1..Len(sectors) : sectors'[i] = sectors[i]]_vars

-----------------------------------------------------------------------------
(* C7.  A row that repeats a registered detailed-item id leaves its        *)
(* DetailedItems entry unchanged and still sets the slot to that id.       *)
(* Fails: the entry is assigned again whenever the row carries a name.     *)
C7_DetailedItemKept ==
    [][RowStep /\ ~Skipped(file'[Len(file')])
          /\ Has(detailed_items, DetailedItemIdRaw(file'[Len(file')]))
          => /\ Get(detailed_items', DetailedItemIdRaw(file'[Len(file')]))
                   = Get(detailed_items, DetailedItemIdRaw(file'[Len(file')]))
             /\ current_detailed_item_id' = DetailedItemIdRaw(file'[Len(file')])]_vars

-----------------------------------------------------------------------------
(* C8.  Organisation ids that differ only in letter case give exactly one  *)
(* Organisation, keyed and stored in upper case, and every capability      *)
(* refers to it by that upper-cased id.                                    *)
C8_CaseCollapse ==
    /\ \A i \in 1..Len(organisations) :
          /\ organisations[i][2].organisationId = organisations[i][1]
          /\ HasNoLowerCase(organisations[i][1])
    /\ \A i, j \in 1..Len(organisations) :
          SameIgnoringCase(organisations[i][1], organisations[j][1]) => i = j
    /\ \A n \in 1..Len(file) :
          Strip(Cell(file[n], COL_ORG_ID)) # <<>> =>
              Cardinality({i \in 1..Len(organisations) :
                  SameIgnoringCase(Strip(Cell(file[n], COL_ORG_ID)),
                                   organisations[i][1])}) = 1
    /\ \A c \in 1..Len(capabilities) :
          /\ HasNoLowerCase(capabilities[c].organisationId)
          /\ \E n \in 1..Len(file) :
                SameIgnoringCase(Strip(Cell(file[n], COL_ORG_ID)),
                                 capabilities[c].organisationId)

\* C8: rows "a" and "A" were both processed and share one record, "A".
C8_Witness ==
    /\ \E m, n \in 1..Len(file) :
          /\ Strip(Cell(file[m], COL_ORG_ID)) = <<"a">>
          /\ Strip(Cell(file[n], COL_ORG_ID)) = <<"A">>
    /\ Keys(organisations) = {<<"A">>}
    /\ Len(capabilities) >= 2
    /\ \A c \in 1..Len(capabilities) : capabilities[c].organisationId = <<"A">>

-----------------------------------------------------------------------------
(* C9.  The organisationId of every Capability is a key of Organisations.  *)
C9_CapabilityOrganisationExists ==
    \A c \in 1..Len(capabilities) :
        Has(organisations, capabilities[c].organisationId)

\* C9: capabilities of two organisations, one of them written in lower case.
C9_Witness ==
    /\ Len(capabilities) >= 2
    /\ {capabilities[c].organisationId : c \in 1..Len(capabilities)}
          = {<<"A">>, <<"B", "1">>}
    /\ \E n \in 1..Len(file) : Cell(file[n], COL_ORG_ID) = <<"b", "1">>

-----------------------------------------------------------------------------
(* C10.  Every non-null itemId, detailedItemId and sectorMappingId of a    *)
(* Capability is a key of Items, DetailedItems and Sectors, and every      *)
(* non-null itemId of a DetailedItem is a key of Items.                    *)
(* Fails: an identifier is used by the capability (and the slot) even when *)
(* its name cell is blank, and then it is never registered.                *)
C10_ForeignKeysExist ==
    /\ \A c \in 1..Len(capabilities) :
          /\ ~IsNone(capabilities[c].itemId) => Has(items, capabilities[c].itemId)
          /\ ~IsNone(capabilities[c].detailedItemId)
                => Has(detailed_items, capabilities[c].detailedItemId)
          /\ ~IsNone(capabilities[c].sectorMappingId)
                => Has(sectors, capabilities[c].sectorMappingId)
    /\ \A d \in 1..Len(detailed_items) :
          ~IsNone(detailed_items[d][2].itemId) => Has(items, detailed_items[d][2].itemId)

-----------------------------------------------------------------------------
(* C11.  After any prefix of the input the Capabilities list holds one     *)
(* entry for each row that has a non-blank organisation id and a non-blank *)
(* capability label, in row order, and no other; entries already appended  *)
(* are never changed, merged, deduplicated or removed.                     *)

\* The rows of f that carry an organisation id and a capability label.
LabelledRows(f) ==
    {n \in 1..Len(f) : /\ Strip(Cell(f[n], COL_ORG_ID)) # <<>>
                       /\ Strip(Cell(f[n], COL_CAPABILITY)) # <<>>}

\* The k-th of them, in file order.
KthLabelledRow(f, k) ==
    CHOOSE n \in LabelledRows(f) :
        Cardinality({m \in LabelledRows(f) : m <= n}) = k

C11_OneCapabilityPerRow ==
    [][/\ Len(capabilities') = Cardinality(LabelledRows(file'))
       /\ \A k \in 1..Len(capabilities') :
             LET row == file'[KthLabelledRow(file', k)]
             IN  /\ capabilities'[k].organisationCapability
                        = Strip(Cell(row, COL_CAPABILITY))
                 /\ SameIgnoringCase(capabilities'[k].organisationId,
                                     Strip(Cell(row, COL_ORG_ID)))
       /\ \A k \in 1..Len(capabilities) : capabilities'[k] = capabilities[k]]_vars

\* C11: the same row twice gives two equal entries, followed by a third.
C11_Witness ==
    /\ Len(file) = 3
    /\ file[1] = file[2]
    /\ LabelledRows(file) = {1, 2, 3}
    /\ Len(capabilities) = 3
    /\ capabilities[1] = capabilities[2]
    /\ capabilities[3].organisationCapability = <<"d">>

-----------------------------------------------------------------------------
(* C14.  A row whose organisation identifier cell is blank or white space  *)
(* changes nothing: the five collections and both slots stay as they were, *)
(* whatever its other cells hold.                                          *)
C14_BlankOrganisationRowIsInert ==
    [][RowStep /\ Strip(Cell(file'[Len(file')], COL_ORG_ID)) = <<>>
          => UNCHANGED <<items, detailed_items, sectors, organisations,
                         capabilities, current_detailed_item_id,
                         current_sector_mapping_id>>]_vars

\* C14: after a row of group D/S, a row with a white-space organisation cell
\* and item, detailed-item, sector and capability cells has been read.
C14_Witness ==
    /\ Len(file) >= 2
    /\ Cell(LastRow, COL_ORG_ID) = <<" ">>
    /\ ItemIdOf(LastRow) = <<"J">>
    /\ DetailedItemIdRaw(LastRow) = <<"E">>
    /\ SectorMappingIdRaw(LastRow) = <<"T">>
    /\ Strip(Cell(LastRow, COL_CAPABILITY)) # <<>>
    /\ current_detailed_item_id = <<"D">>
    /\ current_sector_mapping_id = <<"S">>
    /\ Len(capabilities) = Len(file) - 1

-----------------------------------------------------------------------------
(* C15.  The Organisation record of a normalized id is the same for every  *)
(* processing order of its rows, provided each non-key field is given a    *)
(* non-blank value by at most one of them.                                 *)
(* Fails: a coordinate of 0.0 is stored by the row that creates the record *)
(* and is not stored by a row that merges into it.                         *)

\* The column each non-key field is read from.
OrgFieldColumn(f) ==
    IF f = "latitude" THEN COL_LATITUDE
    ELSE IF f = "longitude" THEN COL_LONGITUDE
    ELSE OrgTextFields[CHOOSE i \in 1..Len(OrgTextFields) : OrgTextFields[i][1] = f][2]

\* The rows of f that contribute to organisation id.
ContributingRows(f, id) ==
    {n \in 1..Len(f) : SameIgnoringCase(Strip(Cell(f[n], COL_ORG_ID)), id)}

\* Each field of organisation id has at most one row giving it a value.
SingleSourcePerField(f, id) ==
    \A fld \in OrgFields :
        Cardinality({n \in ContributingRows(f, id) :
                        Strip(Cell(f[n], OrgFieldColumn(fld))) # <<>>}) <= 1

\* A pass over the rows f: self.organisations at its end, and whether an
\* exception ended it.  The rows after the one that raises are not read.
RECURSIVE PassOf(_)
PassOf(f) ==
    IF Len(f) = 0 THEN [organisations |-> <<>>, aborted |-> FALSE]
    ELSE LET before == PassOf(SubSeq(f, 1, Len(f) - 1))
             row    == f[Len(f)]
         IN  IF before.aborted THEN before
             ELSE [organisations |-> OrganisationsAfter(before.organisations, row),
                   aborted       |-> CrashLine(before.organisations, row) # 0]

\* self.organisations after a pass over the rows f.
OrganisationsOfPass(f) == PassOf(f).organisations

RowOrders(n) ==
    {p \in [1..n -> 1..n] : \A i, j \in 1..n : p[i] = p[j] => i = j}

C15_MergeOrderIndependent ==
    \A i \in 1..Len(organisations) :
        SingleSourcePerField(file, organisations[i][1]) =>
            \A p \in RowOrders(Len(file)) :
                Get(OrganisationsOfPass([n \in 1..Len(file) |-> file[p[n]]]),
                    organisations[i][1])
                    = organisations[i][2]

-----------------------------------------------------------------------------
(* C17.  No non-key field of an Organisation record is the empty string:   *)
(* a blank source value is stored as None, at creation and at a merge.     *)
C17_NoEmptyStringField ==
    \A i \in 1..Len(organisations) : \A f \in OrgFields :
        organisations[i][2][f] # <<>>

\* C17: the record of B1 was created from a white-space name, had its name
\* filled by a later row whose street is white space, and holds no street.
C17_Witness ==
    /\ Len(file) >= 2
    /\ Cell(file[1], COL_ORG_ID) = <<"b", "1">>
    /\ Cell(file[1], COL_ORG_NAME) = <<" ">>
    /\ Cell(LastRow, COL_ORG_ID) = <<"B", "1">>
    /\ Cell(LastRow, COL_STREET) = <<" ">>
    /\ Has(organisations, <<"B", "1">>)
    /\ Get(organisations, <<"B", "1">>).organisationName = <<"n">>
    /\ Get(organisations, <<"B", "1">>).billingStreet = None

-----------------------------------------------------------------------------
(* C12.  A day/month/year date becomes the ISO string of the same date     *)
(* ("05/03/2024" becomes "2024-03-05"), and every non-blank value that     *)
(* does not parse under that format, such as "not-a-date", becomes None.   *)
(* Fails: a value without "/" is stored as it is.                          *)
C12_DateNormalized ==
    [][CapabilityStep =>
          LET date_str == Strip(Cell(file'[Len(file')], COL_DATE))
              stored   == capabilities'[Len(capabilities')].validationDate
          IN  /\ date_str = <<"0", "5", "/", "0", "3", "/", "2", "0", "2", "4">>
                    => stored = <<"2", "0", "2", "4", "-", "0", "3", "-", "0", "5">>
              /\ DateOk(date_str) => stored = DateIso(date_str)
              /\ date_str # <<>> /\ ~DateOk(date_str) => stored = None]_vars

-----------------------------------------------------------------------------
(* C13.  A row whose validation date is non-blank and malformed never      *)
(* aborts the pass: its Organisation is created or merged, its Capability  *)
(* is appended when it has a label, and the rows after it are processed.   *)
C13_MalformedDateDoesNotAbort ==
    [][RowStep =>
          LET row      == file'[Len(file')]
              date_str == Strip(Cell(row, COL_DATE))
              org_id   == Strip(Cell(row, COL_ORG_ID))
          IN  /\ org_id # <<>> /\ date_str # <<>> /\ ~DateOk(date_str)
                    => /\ ~aborted'
                       /\ \E i \in 1..Len(organisations') :
                             SameIgnoringCase(organisations'[i][1], org_id)
                       /\ Strip(Cell(row, COL_CAPABILITY)) # <<>>
                             => /\ CapabilityStep
                                /\ capabilities'[Len(capabilities')].organisationCapability
                                       = Strip(Cell(row, COL_CAPABILITY))
              /\ Len(capabilities') = Cardinality(LabelledRows(file'))]_vars

\* C13: a row with the date 31/02/2024 and a row with the date not-a-date
\* were processed, and the row after them appended its capability.
C13_Witness ==
    /\ Len(file) = 3
    /\ Cell(file[1], COL_DATE) = <<"3", "1", "/", "0", "2", "/", "2", "0", "2", "4">>
    /\ Cell(file[2], COL_DATE) = <<"n", "o", "t", "-", "a", "-", "d", "a", "t", "e">>
    /\ Cell(file[3], COL_ORG_ID) = <<"b">>
    /\ ~aborted
    /\ Len(capabilities) = 3
    /\ capabilities[1].validationDate = None
    /\ capabilities[3].validationDate = <<"2", "0", "2", "4", "-", "0", "3", "-", "0", "5">>
    /\ Keys(organisations) = {<<"A">>, <<"B">>}

-----------------------------------------------------------------------------
(* C16.  A row with a non-blank organisation id whose Latitude or          *)
(* Longitude is blank, not a number, or absent (the row has no cell for    *)
(* that column) is processed without aborting the pass, and the coordinate *)
(* is taken as None for that row.                                          *)
(* Fails: the cell of a line cut short is None, `.strip()` on it raises    *)
(* AttributeError, and the handler catches ValueError and TypeError only.  *)

\* The cell gives no coordinate: it is absent, blank or not a number.
NoCoordinate(cell) ==
    IsNone(cell) \/ Strip(cell) = <<>> \/ ~FloatOk(Strip(cell))

C16_MissingCoordinateTolerated ==
    [][RowStep /\ Strip(Cell(file'[Len(file')], COL_ORG_ID)) # <<>> =>
          LET row == file'[Len(file')]
              id  == Upper(Strip(Cell(row, COL_ORG_ID)))
              lat == Cell(row, COL_LATITUDE)
              lon == Cell(row, COL_LONGITUDE)
          IN  NoCoordinate(lat) \/ NoCoordinate(lon) =>
                /\ ~aborted'
                /\ Has(organisations', id)
                /\ NoCoordinate(lat) =>
                      Get(organisations', id).latitude
                          = IF Has(organisations, id)
                            THEN Get(organisations, id).latitude ELSE None
                /\ NoCoordinate(lon) =>
                      Get(organisations', id).longitude
                          = IF Has(organisations, id)
                            THEN Get(organisations, id).longitude ELSE None]_vars

-----------------------------------------------------------------------------
(* C18.  geocode_address queries Nominatim first and Photon second.  The   *)
(* first backend that returns coordinates wins and the later one is not    *)
(* queried; a backend that raises or finds nothing never prevents the next *)
(* one from being queried; when both fail the result has no latitude, no   *)
(* longitude and the status 'failed'; whatever the backends answer, the    *)
(* call returns a result.                                                  *)

\* The step geocodes the row it reads and buffers the result.
GeocodeStep ==
    /\ processed_count' = processed_count + 1
    /\ Len(batch_results') = Len(batch_results) + 1

\* The backend answered with coordinates it can return.
AnswersCoordinates(request) ==
    /\ request[3][1] = "data"
    /\ request[1] = NOMINATIM =>
          FloatOk(request[3][2]) /\ FloatOk(request[3][3])

C18_BackendFallback ==
    [][GeocodeStep =>
          LET new    == SubSeq(requests', Len(requests) + 1, Len(requests'))
              row    == batch_results'[Len(batch_results')]
              n      == Len(row)
              result == [latitude |-> row[n - 3], longitude |-> row[n - 2],
                         geocoding_service |-> row[n - 1], status |-> row[n]]
          IN  result.status # EMPTY_ADDRESS =>
                /\ Len(new) \in {1, 2}
                /\ new[1][1] = NOMINATIM
                /\ Len(new) = 2 => new[2][1] = PHOTON /\ new[2][2] = new[1][2]
                /\ Len(new) = 2 <=> ~AnswersCoordinates(new[1])
                /\ AnswersCoordinates(new[1]) =>
                      result = [latitude  |-> FloatVal(new[1][3][2]),
                                longitude |-> FloatVal(new[1][3][3]),
                                geocoding_service |-> NOMINATIM,
                                status |-> SUCCESS]
                /\ Len(new) = 2 /\ AnswersCoordinates(new[2]) =>
                      result = [latitude  |-> new[2][3][3],
                                longitude |-> new[2][3][2],
                                geocoding_service |-> PHOTON,
                                status |-> SUCCESS]
                /\ Len(new) = 2 /\ ~AnswersCoordinates(new[2]) =>
                      result = [latitude |-> None, longitude |-> None,
                                geocoding_service |-> None, status |-> FAILED]]_vars

\* C18: one run met a Nominatim that raised and a Photon that answered,
\* then both backends raising, then a Nominatim that answered at once.
C18_Witness ==
    /\ Len(batch_results) = 3
    /\ Len(requests) = 5
    /\ requests[1][1] = NOMINATIM /\ requests[1][3] = <<"error">>
    /\ requests[2][1] = PHOTON /\ requests[2][3][1] = "data"
    /\ requests[3][1] = NOMINATIM /\ requests[3][3] = <<"error">>
    /\ requests[4][1] = PHOTON /\ requests[4][3] = <<"error">>
    /\ requests[5][1] = NOMINATIM /\ requests[5][3][1] = "data"
    /\ batch_results[1][Len(batch_results[1])] = SUCCESS
    /\ batch_results[1][Len(batch_results[1]) - 1] = PHOTON
    /\ batch_results[2][Len(batch_results[2])] = FAILED
    /\ batch_results[3][Len(batch_results[3])] = SUCCESS
    /\ batch_results[3][Len(batch_results[3]) - 1] = NOMINATIM

-----------------------------------------------------------------------------
(* C19.  Every row the geocoder writes carries a status tag of the set     *)
(* {success, failed, empty-input, skipped}, and its latitude, longitude    *)
(* and backend fields are all filled when the status is success and all    *)
(* empty otherwise.                                                        *)
(* Fails as stated: a row whose address parts are all blank is tagged      *)
(* 'empty_address'.  Holds with that tag in the set.                       *)

\* The data lines of the output file (line 1 is the header).
WrittenRows == {n \in 2..Len(output) : TRUE}

StatusOf(line) == line[Len(line)]

\* The latitude, longitude and backend fields of a written line.
GeocodingFields(line) ==
    {line[Len(line) - 3], line[Len(line) - 2], line[Len(line) - 1]}

FilledOnSuccessOnly(line) ==
    IF StatusOf(line) = SUCCESS
    THEN \A field \in GeocodingFields(line) : field # <<>>
    ELSE \A field \in GeocodingFields(line) : field = <<>>

C19_StatusTagAsStated ==
    \A n \in WrittenRows :
        /\ StatusOf(output[n]) \in {SUCCESS, FAILED, <<"e", "m", "p", "t", "y", "-", "i", "n", "p", "u", "t">>, SKIPPED}
        /\ FilledOnSuccessOnly(output[n])

C19_StatusTag ==
    \A n \in WrittenRows :
        /\ StatusOf(output[n]) \in {SUCCESS, FAILED, EMPTY_ADDRESS, SKIPPED}
        /\ FilledOnSuccessOnly(output[n])

\* C19: the file holds a row without address parts, a row geocoded to the
\* latitude 0.0 and a row both backends failed on.
C19_Witness ==
    /\ finished
    /\ Len(output) = 4
    /\ StatusOf(output[2]) = EMPTY_ADDRESS
    /\ StatusOf(output[3]) = SUCCESS
    /\ output[3][Len(output[3]) - 3] = <<"0", ".", "0">>
    /\ output[3][Len(output[3]) - 1] = NOMINATIM
    /\ StatusOf(output[4]) = FAILED

-----------------------------------------------------------------------------
(* C20.  generate_sql_inserts and export_to_csv each emit, for every one   *)
(* of the five collections, exactly one row per entry of the collection,   *)
(* in the collection's insertion order.                                    *)

\* The INSERT lines of one table, in file order.
StatementsOf(table) == SelectSeq(sql_out, LAMBDA statement : statement[1] = table)

\* The data lines of one CSV file (line 1 is the header).
DataLines(name) == Tail(csv_out[name])

C20_OneRowPerEntryInOrder ==
    /\ "sql" \in written =>
          /\ StatementsOf("Items")
                = [i \in 1..Len(items) |-> ItemStatement(items[i])]
          /\ StatementsOf("DetailedItems")
                = [i \in 1..Len(detailed_items) |-> DetailedItemStatement(detailed_items[i])]
          /\ StatementsOf("Sectors")
                = [i \in 1..Len(sectors) |-> SectorStatement(sectors[i])]
          /\ StatementsOf("Organisations")
                = [i \in 1..Len(organisations) |-> OrganisationStatement(organisations[i])]
          /\ StatementsOf("Capabilities")
                = [i \in 1..Len(capabilities) |-> CapabilityStatement(capabilities[i])]
          /\ Len(sql_out) = Len(items) + Len(detailed_items) + Len(sectors)
                              + Len(organisations) + Len(capabilities)
    /\ "csv" \in written =>
          /\ DataLines("items") = [i \in 1..Len(items) |-> ItemLine(items[i])]
          /\ DataLines("detailed_items")
                = [i \in 1..Len(detailed_items) |-> DetailedItemLine(detailed_items[i])]
          /\ DataLines("sectors") = [i \in 1..Len(sectors) |-> SectorLine(sectors[i])]
          /\ DataLines("organisations")
                = [i \in 1..Len(organisations) |-> OrganisationLine(organisations[i])]
          /\ DataLines("capabilities")
                = [i \in 1..Len(capabilities) |-> CapabilityLine(capabilities[i])]

\* C20: both outputs were written from collections of two or more entries
\* whose insertion order is not the order of their keys, the organisation
\* A merged from two rows.
C20_Witness ==
    /\ written = {"sql", "csv"}
    /\ Len(organisations) = 2 /\ Len(items) = 2
    /\ Len(detailed_items) = 2 /\ Len(sectors) = 2
    /\ Len(capabilities) = 3
    /\ organisations[1][1] = <<"B">> /\ organisations[2][1] = <<"A">>
    /\ items[1][1] = <<"I", "2">> /\ items[2][1] = <<"I", "1">>
    /\ Len(sql_out) = 11
    /\ sql_out[1][2][1] = <<"'", "I", "2", "'">>
    /\ Len(csv_out["capabilities"]) = 4
    /\ csv_out["organisations"][2][1] = <<"B">>

-----------------------------------------------------------------------------
(* C21.  In the SQL file every value written between single quotes,        *)
(* identifiers as well as names, in all five tables, has each single quote *)
(* of the value doubled, so that no value ends its own literal early.      *)
(* Fails: the identifiers of Items, DetailedItems and Sectors, and the     *)
(* itemId of DetailedItems, are written as they are.                       *)

\* Every single quote of s is one of a pair.
RECURSIVE QuotesDoubled(_)
QuotesDoubled(s) ==
    IF Len(s) = 0 THEN TRUE
    ELSE IF s[1] = Quote
    THEN Len(s) >= 2 /\ s[2] = Quote /\ QuotesDoubled(SubSeq(s, 3, Len(s)))
    ELSE QuotesDoubled(Tail(s))

\* A quoted literal that ends where it is meant to end.
ProperLiteral(literal) ==
    /\ Len(literal) >= 2
    /\ literal[Len(literal)] = Quote
    /\ QuotesDoubled(SubSeq(literal, 2, Len(literal) - 1))

\* The literal of a stored str with its quotes doubled.
EscapedLiteral(value) == SqlQuoted(SqlEscape(value))

C21_QuotesDoubledEverywhere ==
    "sql" \in written =>
        /\ \A n \in 1..Len(sql_out) : \A c \in 1..Len(sql_out[n][2]) :
              sql_out[n][2][c][1] = Quote => ProperLiteral(sql_out[n][2][c])
        /\ \A i \in 1..Len(items) :
              StatementsOf("Items")[i][2]
                  = <<EscapedLiteral(items[i][1]), EscapedLiteral(items[i][2])>>
        /\ \A i \in 1..Len(detailed_items) :
              /\ StatementsOf("DetailedItems")[i][2][1]
                    = EscapedLiteral(detailed_items[i][1])
              /\ StatementsOf("DetailedItems")[i][2][2]
                    = EscapedLiteral(detailed_items[i][2].detailedItemName)
              /\ ~IsNone(detailed_items[i][2].itemId) =>
                    StatementsOf("DetailedItems")[i][2][3]
                        = EscapedLiteral(detailed_items[i][2].itemId)
        /\ \A i \in 1..Len(sectors) :
              StatementsOf("Sectors")[i][2]
                  = <<EscapedLiteral(sectors[i][1]), EscapedLiteral(sectors[i][2])>>
        /\ \A i \in 1..Len(organisations) :
              \A c \in 1..7 :
                 ~IsNone(organisations[i][2][OrganisationColumns[c]]) =>
                    StatementsOf("Organisations")[i][2][c]
                        = EscapedLiteral(organisations[i][2][OrganisationColumns[c]])
        /\ \A i \in 1..Len(capabilities) :
              \A c \in 1..Len(CapabilityColumns) :
                 ~IsNone(capabilities[i][CapabilityColumns[c]]) =>
                    StatementsOf("Capabilities")[i][2][c]
                        = EscapedLiteral(capabilities[i][CapabilityColumns[c]])

-----------------------------------------------------------------------------
(* C24.  A row's latitude and longitude are parsed in one guarded step,    *)
(* latitude first: when the latitude text is non-blank and not a number    *)
(* the row's longitude is taken as absent even if its text is a valid      *)
(* number, whereas a non-numeric longitude does not discard the valid      *)
(* latitude parsed from the same row.  Observed on the row that creates    *)
(* the Organisation, whose record holds the row's coordinates.             *)
C24_LatitudeParsedFirst ==
    [][RowStep /\ ~aborted'
         /\ Strip(Cell(file'[Len(file')], COL_ORG_ID)) # <<>>
         /\ ~Has(organisations, Upper(Strip(Cell(file'[Len(file')], COL_ORG_ID)))) =>
          LET row == file'[Len(file')]
              lat == Strip(Cell(row, COL_LATITUDE))
              lon == Strip(Cell(row, COL_LONGITUDE))
              org == Get(organisations', Upper(Strip(Cell(row, COL_ORG_ID))))
          IN  /\ lat # <<>> /\ ~FloatOk(lat) =>
                    org.latitude = None /\ org.longitude = None
              /\ lat # <<>> /\ FloatOk(lat) /\ lon # <<>> /\ ~FloatOk(lon) =>
                    org.latitude = FloatVal(lat) /\ org.longitude = None]_vars

\* C24: organisation A was created by a row with latitude 'x' and longitude
\* '7', organisation B by a row with latitude '5' and longitude 'x'.
C24_Witness ==
    /\ Len(file) = 2
    /\ Cell(file[1], COL_LATITUDE) = <<"x">>
    /\ Cell(file[1], COL_LONGITUDE) = <<"7">>
    /\ Cell(file[2], COL_LATITUDE) = <<"5">>
    /\ Cell(file[2], COL_LONGITUDE) = <<"x">>
    /\ Len(organisations) = 2
    /\ organisations[1][1] = <<"A">>
    /\ organisations[1][2].latitude = None
    /\ organisations[1][2].longitude = None
    /\ organisations[2][1] = <<"B">>
    /\ organisations[2][2].latitude = Float(5, 0)
    /\ organisations[2][2].longitude = None

-----------------------------------------------------------------------------
(* C22.  The geocoder's process_csv geocodes at most max_rows addresses:   *)
(* for every max_rows passed, the number of rows geocode_address was       *)
(* called on (processed_count counts them) never exceeds max_rows.         *)
(* Fails: the test `max_rows and ...` takes max_rows = 0 as no limit.      *)
C22_AtMostMaxRows ==
    ~IsNone(max_rows) => processed_count <= max_rows[2]

-----------------------------------------------------------------------------
(* C23.  The geocoder writes rows through a buffer that is flushed when it *)
(* reaches 10 rows and once more at the end: when the run finishes the     *)
(* buffer is empty and the output file holds the header followed by        *)
(* exactly the input rows read from start_row up to the stopping point,    *)
(* each once, in input order, each extended by five geocoding columns.     *)
(* Fails as stated: the final write leaves the rows in batch_results.      *)
(* Holds with "every buffered row has been written" in place of "the       *)
(* buffer is empty", the stopping point being the end of the input or the  *)
(* row at which max_rows was found reached (that row is not written).      *)

\* The line is the row followed by five more fields.
Extends(line, row) ==
    Len(line) = Len(row) + 5 /\ SubSeq(line, 1, Len(row)) = row

\* The rows of rd after the first start_row.
AfterStart(rd) ==
    IF Len(rd) > start_row THEN SubSeq(rd, start_row + 1, Len(rd)) ELSE <<>>

\* The lines are the header and then one line per row, in order.
HoldsExactly(lines, rows) ==
    /\ Len(lines) = Len(rows) + 1
    /\ lines[1] = InputHeader \o GeocodingHeaders
    /\ \A i \in 1..Len(rows) : Extends(lines[i + 1], rows[i])

\* The last lines of the file are the rows of the buffer.
BufferWritten ==
    /\ Len(output) > Len(batch_results)
    /\ SubSeq(output, Len(output) - Len(batch_results) + 1, Len(output))
          = CsvLines(batch_results)

C23_BufferEmptyAtEnd ==
    finished =>
        /\ batch_results = <<>>
        /\ \E rows \in {AfterStart(reader),
                        AfterStart(SubSeq(reader, 1, Len(reader) - 1))} :
              HoldsExactly(output, rows)

C23_BatchedWrite ==
    /\ [](Len(batch_results) < batch_size)
    /\ [](~finished =>
             /\ (Len(output) - 1) % batch_size = 0
             /\ HoldsExactly(output \o CsvLines(batch_results), AfterStart(reader)))
    /\ [](finished => BufferWritten)
    /\ [][~finished /\ finished' => HoldsExactly(output', AfterStart(reader))]_vars

\* C23: a run over twelve rows with start_row = 1 has written a batch of ten
\* rows and a final batch of one, rows with and without an address.
C23_Witness ==
    /\ finished
    /\ start_row = 1
    /\ Len(reader) = 12
    /\ Len(output) = 12
    /\ Len(batch_results) = 1
    /\ StatusOf(output[2]) = SUCCESS
    /\ StatusOf(output[3]) = SKIPPED
    /\ StatusOf(output[12]) = SUCCESS

====
